---- MODULE Spec2Model ----
(***************************************************************************)
(* Verification model of the neo4j-toolkit query builder:                  *)
(*   - PathPatternBuilder   (linked chain of node/relationship elements)   *)
(*   - WhereClauseBuilder   (flat list of statement/and/or/bracket nodes)  *)
(*   - QueryBuilder         (one slot per clause type, fixed assembly)     *)
(* Text is modelled as a sequence of tokens; an exception as ok = FALSE.   *)
(***************************************************************************)
EXTENDS Integers, Sequences, FiniteSets, TLC

VARIABLES pb, pbResult, pbPrev, pbCalls, pbLast, pbFinals, pbSince,
          wb, wbResult, wbCalls, wbLast, wbScope, uuid,
          qb, qbResult, qbCalls, qbThrew, qbHeld, qbReordered, qbSelect,
          qbSecond,
          cb, cbLast, cbScope, cbCalls,
          sb, sbLast, sbResult, sbCalls,
          idleSessionMap, activeSessionMap, checkouts, poolLast, shut

pathVars == <<pb, pbResult, pbPrev, pbCalls, pbLast, pbFinals, pbSince>>
whereVars == <<wb, wbResult, wbCalls, wbLast, wbScope, uuid>>
queryVars ==
  <<qb, qbResult, qbCalls, qbThrew, qbHeld, qbReordered, qbSelect, qbSecond>>
clauseVars == <<cb, cbLast, cbScope, cbCalls>>
setVars == <<sb, sbLast, sbResult, sbCalls>>
poolVars == <<idleSessionMap, activeSessionMap, checkouts, poolLast, shut>>
restVars == <<clauseVars, setVars, poolVars>>
vars == <<pb, pbResult, pbPrev, pbCalls, pbLast, pbFinals, pbSince,
          wb, wbResult, wbCalls, wbLast, wbScope, uuid,
          qb, qbResult, qbCalls, qbThrew, qbHeld, qbReordered, qbSelect,
          qbSecond,
          cb, cbLast, cbScope, cbCalls,
          sb, sbLast, sbResult, sbCalls,
          idleSessionMap, activeSessionMap, checkouts, poolLast, shut>>

-----------------------------------------------------------------------------
(* Bounds of the model *)

\* builder calls made on one PathPatternBuilder
MaxPathCalls == 3
\* toParameterizedQuery calls made on one PathPatternBuilder
MaxPathFinals == 2

\* aliases a caller gives to pattern elements ("" is the absent alias)
PathAliases == {"", "a", "r"}

\* the options a caller gives to shortestPath: alias p with every combination
\* of length 2, isGroup and isAll, a length of 0, and the aliases a and r
\* that elements of the pattern may carry
ShortestPathOptions ==
  {[alias |-> "p", hasLength |-> l, length |-> IF l THEN 2 ELSE 0,
    isGroup |-> g, isAll |-> x] : l, g, x \in BOOLEAN}
  \cup {[alias |-> "p", hasLength |-> TRUE, length |-> 0,
          isGroup |-> FALSE, isAll |-> FALSE]}
  \cup {[alias |-> a, hasLength |-> FALSE, length |-> 0,
          isGroup |-> FALSE, isAll |-> FALSE] : a \in {"a", "r"}}

-----------------------------------------------------------------------------
(* Generic helpers *)

RECURSIVE SeqToSet(_)
SeqToSet(s) == IF s = <<>> THEN {} ELSE {Head(s)} \cup SeqToSet(Tail(s))

\* util.ts mergeProperties: shallow merge, the later key wins
mergeProperties(properties, newProperties) ==
  [k \in (DOMAIN properties) \cup (DOMAIN newProperties) |->
     IF k \in DOMAIN newProperties THEN newProperties[k] ELSE properties[k]]

EmptyBag == [k \in {} |-> "undefined"]

-----------------------------------------------------------------------------
(* PathPatternBuilder *)

\* an element of the chain; previous/next are indices into pb.els, 0 = undefined.
\* ghost is bookkeeping of the model: TRUE for a node the builder made itself
Element(type, alias, previous, next, nextType) ==
  [type |-> type, alias |-> alias, previous |-> previous, next |-> next,
   nextType |-> nextType, ghost |-> FALSE]

GhostElement(previous, next, nextType) ==
  [Element("node", "", previous, next, nextType) EXCEPT !.ghost = TRUE]

\* new PathPatternBuilder(); sp is _shortestPathOptions, set = FALSE when it is
\* undefined, length = 0 when no length is held (shortestPath stores no
\* length <= 0)
NewPathPatternBuilder ==
  [els |-> <<>>, start |-> 0, last |-> 0, cnt |-> 0,
   sp |-> [set |-> FALSE, alias |-> "", length |-> 0, isGroup |-> FALSE, isAll |-> FALSE]]

Ok(b) == [ok |-> TRUE, pb |-> b]
Throw(b) == [ok |-> FALSE, pb |-> b]

getConnectionSymbol(element) ==
  IF element.type = "node"
  THEN CASE element.nextType = "toNode" -> "-->"
         [] element.nextType = "fromNode" -> "<--"
         [] element.nextType = "toRelationship" -> "-"
         [] element.nextType = "fromRelationship" -> "<-"
         [] element.nextType = "unDirectedNode" -> "--"
         [] OTHER -> ""
  ELSE CASE element.nextType = "toNode" -> "->"
         [] element.nextType = "fromNode" -> "-"
         [] OTHER -> ""

\* append `element` after the current last element, which gets nextType `nt`
LinkAfterLast(b, element, nt) ==
  LET n == Len(b.els) + 1
      linked == [b.els EXCEPT ![b.last].next = n, ![b.last].nextType = nt]
  IN [b EXCEPT !.els = Append(linked, element), !.last = n, !.cnt = b.cnt + 1]

setNode(b, alias) ==
  IF b.start # 0 THEN Throw(b)
  ELSE Ok([b EXCEPT !.els = Append(b.els, Element("node", alias, 0, 0, "none")),
                    !.start = Len(b.els) + 1, !.last = Len(b.els) + 1,
                    !.cnt = b.cnt + 1])

\* setRelationshipUnchecked is setRelationship without the check of _startElement
setRelationshipUnchecked(b, alias) ==
  Ok([b EXCEPT !.els = Append(b.els, Element("relationship", alias, 0, 0, "none")),
               !.start = Len(b.els) + 1, !.last = Len(b.els) + 1,
               !.cnt = b.cnt + 1])

setRelationship(b, alias) ==
  IF b.start # 0 THEN Throw(b)
  ELSE Ok([b EXCEPT !.els = Append(b.els, Element("relationship", alias, 0, 0, "none")),
                    !.start = Len(b.els) + 1, !.last = Len(b.els) + 1,
                    !.cnt = b.cnt + 1])

toRelationship(b, alias) ==
  IF b.last = 0 THEN Throw(b)
  ELSE IF b.els[b.last].type = "relationship" THEN Throw(b)
  ELSE Ok(LinkAfterLast(b, Element("relationship", alias, b.last, 0, "none"),
                        "toRelationship"))

fromRelationship(b, alias) ==
  IF b.last = 0 THEN Throw(b)
  ELSE Ok(LinkAfterLast(b, Element("relationship", alias, b.last, 0, "none"),
                        "fromRelationship"))

\* the ghost start node toNode/fromNode put before a relationship without previous
GhostStart(b, nt) ==
  IF b.els[b.last].type = "relationship" /\ b.els[b.last].previous = 0
  THEN LET n == Len(b.els) + 1
       IN [b EXCEPT !.els = Append([b.els EXCEPT ![b.last].previous = n],
                                   GhostElement(0, b.last, nt)),
                    !.start = n, !.cnt = b.cnt + 1]
  ELSE b

\* toNode and fromNode, with `ghost` TRUE when toParameterizedQuery makes the call
toNodeAs(b, alias, ghost) ==
  IF b.start = 0 \/ b.last = 0 THEN Throw(b)
  ELSE LET g == GhostStart(b, "toRelationship")
           element == [Element("node", alias, g.last, 0, "none") EXCEPT !.ghost = ghost]
       IN Ok(LinkAfterLast(g, element, "toNode"))

fromNodeAs(b, alias, ghost) ==
  IF b.start = 0 \/ b.last = 0 THEN Throw(b)
  ELSE LET g == GhostStart(b, "fromRelationship")
           element == [Element("node", alias, g.last, 0, "none") EXCEPT !.ghost = ghost]
       IN Ok(LinkAfterLast(g, element, "fromNode"))

\* toNodeOrStart is a toNode that makes the node the start element when there
\* is none
toNodeOrStart(b, alias) ==
  IF b.start = 0 THEN setNode(b, alias) ELSE toNodeAs(b, alias, FALSE)

toNode(b, alias) == toNodeAs(b, alias, FALSE)

fromNode(b, alias) == fromNodeAs(b, alias, FALSE)

addNode(b, alias) ==
  IF b.start = 0 \/ b.last = 0 THEN Throw(b)
  ELSE IF b.els[b.last].type = "relationship" THEN Throw(b)
  ELSE Ok(LinkAfterLast(b, Element("node", alias, b.last, 0, "none"),
                        "unDirectedNode"))

\* the ShortestPathOptions a caller passes; shortestPath(alias, length) is
\* shortestPath({alias, length})
ShortestPathOption(alias, hasLength, length, isGroup, isAll) ==
  [alias |-> alias, hasLength |-> hasLength, length |-> length,
   isGroup |-> isGroup, isAll |-> isAll]

shortestPath(b, option) ==
  IF option.hasLength /\ option.length <= 0 THEN Throw(b)
  ELSE Ok([b EXCEPT !.sp = [set |-> TRUE, alias |-> option.alias,
                            length |-> IF option.hasLength THEN option.length ELSE 0,
                            isGroup |-> option.isGroup, isAll |-> option.isAll]])

\* _mergeAliasSet(targetSet, sourceSet, throwOnConflict): ok = FALSE is the throw
mergeAliasSet(targetSet, sourceSet, throwOnConflict) ==
  LET named == {x \in sourceSet : x # ""}
  IN IF throwOnConflict /\ (named \cap targetSet) # {}
     THEN [ok |-> FALSE, set |-> targetSet]
     ELSE [ok |-> TRUE, set |-> targetSet \cup named]

\* _checkAliasConflict(validationSet, testSet): TRUE when it throws
checkAliasConflict(validationSet, testSet) == (validationSet \cap testSet) # {}

\* NodePatternBuilder / RelationPatternBuilder.toParameterizedQuery
ElementQuery(element) ==
  IF element.type = "node" THEN <<"(", element.alias, ")">>
  ELSE <<"[", element.alias, "]">>

ElementAliasSet(element) == {element.alias}

\* the element loop of toParameterizedQuery: while (this._elementCnt-- > 0)
RECURSIVE ElementLoop(_, _, _, _, _, _)
ElementLoop(els, cur, cnt, nodeAliasSet, relationshipAliasSet, queryString) ==
  IF ~(cnt > 0)
  THEN [ok |-> TRUE, cnt |-> cnt - 1, nodeAliasSet |-> nodeAliasSet,
        relationshipAliasSet |-> relationshipAliasSet, query |-> queryString]
  ELSE IF cur = 0
  THEN [ok |-> FALSE, cnt |-> cnt - 1, nodeAliasSet |-> nodeAliasSet,
        relationshipAliasSet |-> relationshipAliasSet, query |-> queryString]
  ELSE LET e == els[cur]
           as == ElementAliasSet(e)
           isNode == e.type = "node"
           nodes == IF isNode THEN mergeAliasSet(nodeAliasSet, as, FALSE).set
                    ELSE nodeAliasSet
           rels == IF isNode THEN relationshipAliasSet
                   ELSE mergeAliasSet(relationshipAliasSet, as, FALSE).set
           conflict == IF isNode THEN checkAliasConflict(relationshipAliasSet, as)
                       ELSE checkAliasConflict(nodeAliasSet, as)
       IN IF conflict
          THEN [ok |-> FALSE, cnt |-> cnt - 1, nodeAliasSet |-> nodes,
                relationshipAliasSet |-> rels, query |-> queryString]
          ELSE ElementLoop(els, e.next, cnt - 1, nodes, rels,
                           queryString \o ElementQuery(e)
                             \o (IF getConnectionSymbol(e) = "" THEN <<>>
                                 ELSE <<getConnectionSymbol(e)>>))

\* the ghost repair at the top of toParameterizedQuery
GhostRepair(b) ==
  IF b.els[b.last].type # "relationship" THEN Ok(b)
  ELSE IF b.cnt = 1
  THEN LET n == Len(b.els) + 1
           withStart ==
             [b EXCEPT !.els = Append([b.els EXCEPT ![b.last].previous = n],
                                      GhostElement(0, b.last, "toRelationship")),
                       !.start = n, !.cnt = b.cnt + 1]
       IN toNodeAs(withStart, "", TRUE)
  ELSE LET prev == b.els[b.last].previous
           prevNextType == IF prev = 0 THEN "none" ELSE b.els[prev].nextType
       IN IF prevNextType = "fromRelationship" THEN fromNodeAs(b, "", TRUE)
          ELSE IF prevNextType = "toRelationship" THEN toNodeAs(b, "", TRUE)
          ELSE Throw(b)

\* ShortestPathQueryGroupsInElse is the prefix with the GROUPS part written
\* inside the else branch, next to the length
ShortestPathQueryGroupsInElse(sp) ==
  IF sp.isAll THEN <<sp.alias, "=", "ALL", "SHORTEST">>
  ELSE <<sp.alias, "=", "SHORTEST">>
       \o (IF sp.length > 0 THEN <<ToString(sp.length)>> ELSE <<>>)
       \o (IF sp.isGroup THEN <<"GROUPS">> ELSE <<>>)

\* the shortest-path prefix of toParameterizedQuery
ShortestPathQuery(sp) ==
  (IF sp.isAll THEN <<sp.alias, "=", "ALL", "SHORTEST">>
   ELSE <<sp.alias, "=", "SHORTEST">>
        \o (IF sp.length > 0 THEN <<ToString(sp.length)>> ELSE <<>>))
  \o (IF sp.isGroup THEN <<"GROUPS">> ELSE <<>>)

NoQuery == [query |-> <<>>, aliases |-> {}]

\* the check `nodeAliasSet.size === 0 && relationshipAliasSet.size === 0`;
\* NoAliasProvidedUnchecked is the variant without it
NoAliasProvidedUnchecked(nodeAliasSet, relationshipAliasSet) == FALSE
NoAliasProvided(nodeAliasSet, relationshipAliasSet) ==
  nodeAliasSet = {} /\ relationshipAliasSet = {}

\* PathPatternBuilder.toParameterizedQuery
PathToParameterizedQuery(b) ==
  IF b.start = 0 \/ b.last = 0
  THEN [ok |-> FALSE, pb |-> b] @@ NoQuery
  ELSE LET rep == GhostRepair(b)
       IN IF ~rep.ok THEN [ok |-> FALSE, pb |-> rep.pb] @@ NoQuery
          ELSE LET r == rep.pb
                   loop == ElementLoop(r.els, r.start, r.cnt, {}, {}, <<>>)
                   after == [r EXCEPT !.cnt = loop.cnt]
                   combined == loop.nodeAliasSet \cup loop.relationshipAliasSet
                   withSp == mergeAliasSet(combined, {r.sp.alias}, TRUE)
               IN IF ~loop.ok THEN [ok |-> FALSE, pb |-> after] @@ NoQuery
                  ELSE IF NoAliasProvided(loop.nodeAliasSet, loop.relationshipAliasSet)
                    THEN [ok |-> FALSE, pb |-> after] @@ NoQuery
                  ELSE IF ~r.sp.set
                    THEN [ok |-> TRUE, pb |-> after, query |-> loop.query,
                          aliases |-> combined]
                  ELSE IF ~withSp.ok THEN [ok |-> FALSE, pb |-> after] @@ NoQuery
                  ELSE [ok |-> TRUE, pb |-> after,
                        query |-> ShortestPathQuery(r.sp) \o loop.query,
                        aliases |-> withSp.set]

-----------------------------------------------------------------------------
(* PathPatternBuilder: one builder, any call order *)

PathInit ==
  /\ pb = NewPathPatternBuilder
  /\ pbResult = [status |-> "none", query |-> <<>>, aliases |-> {}]
  /\ pbPrev = [status |-> "none", query |-> <<>>, aliases |-> {}]
  /\ pbCalls = 0
  /\ pbLast = [op |-> "none", alias |-> "", ok |-> TRUE, lastWasRel |-> FALSE,
               started |-> FALSE, setBefore |-> FALSE]
  /\ pbFinals = 0
  /\ pbSince = FALSE

\* a builder call: the last call is recorded with its outcome and with what the
\* builder looked like when it was made; a call that throws leaves the builder
\* alone. setBefore tells whether a setNode or setRelationship had returned
\* before the call
PathCall(name, alias, res) ==
  /\ pbCalls < MaxPathCalls
  /\ pb' = res.pb
  /\ pbCalls' = pbCalls + 1
  /\ pbLast' = [op |-> name, alias |-> alias, ok |-> res.ok,
                lastWasRel |-> (pb.last # 0 /\ pb.els[pb.last].type = "relationship"),
                started |-> pb.start # 0,
                setBefore |-> (pbLast.setBefore \/
                                (pbLast.op \in {"setNode", "setRelationship"} /\ pbLast.ok))]
  /\ pbSince' = TRUE
  /\ UNCHANGED <<pbResult, pbPrev, pbFinals, whereVars, queryVars, restVars>>

SetNode == \E a \in PathAliases : PathCall("setNode", a, setNode(pb, a))
SetRelationship == \E a \in PathAliases : PathCall("setRelationship", a, setRelationship(pb, a))
ToNode == \E a \in PathAliases : PathCall("toNode", a, toNode(pb, a))
FromNode == \E a \in PathAliases : PathCall("fromNode", a, fromNode(pb, a))
AddNode == \E a \in PathAliases : PathCall("addNode", a, addNode(pb, a))
ToRelationship == \E a \in PathAliases : PathCall("toRelationship", a, toRelationship(pb, a))
FromRelationship == \E a \in PathAliases : PathCall("fromRelationship", a, fromRelationship(pb, a))
ShortestPath == \E o \in ShortestPathOptions : PathCall("shortestPath", o.alias, shortestPath(pb, o))

PathFinalize ==
  /\ pbFinals < MaxPathFinals
  /\ LET res == PathToParameterizedQuery(pb)
     IN /\ pb' = res.pb
        /\ pbResult' = [status |-> IF res.ok THEN "ok" ELSE "throw",
                        query |-> res.query, aliases |-> res.aliases]
  /\ pbPrev' = IF pbSince THEN [status |-> "none", query |-> <<>>, aliases |-> {}]
               ELSE pbResult
  /\ pbFinals' = pbFinals + 1
  /\ pbSince' = FALSE
  /\ UNCHANGED <<pbCalls, pbLast, whereVars, queryVars, restVars>>

PathNext ==
  \/ SetNode \/ SetRelationship \/ ToNode \/ FromNode \/ AddNode
  \/ ToRelationship \/ FromRelationship \/ ShortestPath \/ PathFinalize

-----------------------------------------------------------------------------
(* Parameter codec (util.ts) and statements *)

\* A statement is its alias references, in order of appearance, each with the
\* way it is written ("dot": n.name, "bracket": n[name], "bare": n), and its
\* $key placeholders in order; rnd = 0 is a placeholder as the caller wrote it.
Ref(alias, form) == [alias |-> alias, form |-> form]
Placeholder(name, rnd) == [name |-> name, rnd |-> rnd]
Statement(refs, names) ==
  [refs |-> refs, phs |-> [i \in 1..Len(names) |-> Placeholder(names[i], 0)]]

\* values of a property map; "undefined" is the read of a missing entry
Falsy(v) == v \in {"undefined", "0"}
NoParameters == [given |-> FALSE, map |-> [k \in {} |-> "undefined"]]
Parameters(map) == [given |-> TRUE, map |-> map]
Lookup(map, name) == IF name \in DOMAIN map THEN map[name] ELSE "undefined"

\* extractAliases: the regular expressions match `alias.` and `alias[...]` only
extractAliases(statement) ==
  {statement.refs[i].alias : i \in {j \in 1..Len(statement.refs) :
                                     statement.refs[j].form \in {"dot", "bracket"}}}

\* statement.match(/\$[a-zA-Z0-9]+/g): the placeholders the caller wrote
MatchKeys(statement) ==
  SelectSeq(statement.phs, LAMBDA ph : ph.rnd = 0)

\* randomizeKey: the key with a suffix drawn from uuid v4, modelled as the next
\* value of a counter (a suffix never drawn before); randomizeKeyNoSuffix is
\* the variant that returns the key as written
randomizeKeyNoSuffix(name, rnd) == Placeholder(name, 0)
randomizeKey(name, rnd) == Placeholder(name, rnd)

\* String.replace(key, newKey) with a string pattern: the first occurrence only
RECURSIVE ReplaceFirst(_, _, _)
ReplaceFirst(phs, key, newKey) ==
  IF phs = <<>> THEN <<>>
  ELSE IF Head(phs) = key THEN <<newKey>> \o Tail(phs)
  ELSE <<Head(phs)>> \o ReplaceFirst(Tail(phs), key, newKey)

\* the for loop of randomizeParameterKeys over keys[i..]: every iteration
\* starts again from the original statement; suffixes are drawn after `base`
RECURSIVE RandomizeLoop(_, _, _, _, _, _, _)
RandomizeLoop(statement, parameters, keys, i, base, newPhs, newParameters) ==
  IF i > Len(keys) THEN [phs |-> newPhs, parameters |-> newParameters]
  ELSE LET key == keys[i]
           newKey == randomizeKey(key.name, base + i)
       IN RandomizeLoop(statement, parameters, keys, i + 1, base,
            ReplaceFirst(statement.phs, key, newKey),
            mergeProperties(newParameters,
                            [k \in {newKey} |-> Lookup(parameters, key.name)]))

\* a property map as the caller wrote it, as a bag keyed by placeholder
RawBag(parameters) ==
  [k \in {Placeholder(name, 0) : name \in DOMAIN parameters} |-> parameters[k.name]]

\* randomizeParameterKeys(statement, parameters), drawing suffixes after `base`
randomizeParameterKeys(statement, parameters, base) ==
  LET keys == MatchKeys(statement)
  IN IF keys = <<>>
     THEN [statement |-> statement, parameters |-> RawBag(parameters), drawn |-> 0]
     ELSE LET r == RandomizeLoop(statement, parameters, keys, 1, base, <<>>, EmptyBag)
          IN [statement |-> [statement EXCEPT !.phs = r.phs],
              parameters |-> r.parameters, drawn |-> Len(keys)]

-----------------------------------------------------------------------------
(* WhereClauseBuilder *)

NoStatement == [refs |-> <<>>, phs |-> <<>>]

\* a node of _whereNodeList
WhereNode(type, statement, parameters, subNodes) ==
  [type |-> type, statement |-> statement, parameters |-> parameters,
   subNodes |-> subNodes]

\* new WhereClauseBuilder({ aliases })
NewWhereClauseBuilder(aliases) ==
  [aliasSet |-> aliases, parameters |-> EmptyBag, nodes |-> <<>>]

\* the argument of add/and/or: a statement with an optional property map, or a
\* builder function, given as the calls it makes on the builder it receives
StatementArg(statement, parameters) ==
  [kind |-> "statement", statement |-> statement, parameters |-> parameters,
   script |-> <<>>]
FunctionArg(script) ==
  [kind |-> "function", statement |-> NoStatement, parameters |-> NoParameters,
   script |-> script]
Call(op, arg) == [op |-> op, arg |-> arg]

checkParameterValid(statement, parameters) ==
  LET keys == MatchKeys(statement)
  IN /\ keys # <<>>
     /\ \A i \in 1..Len(keys) : ~Falsy(Lookup(parameters, keys[i].name))

\* _checkAliasValid: FALSE when it returns false or throws (the caller throws
\* in both cases)
checkAliasValid(aliasSet, statement) ==
  LET alias == extractAliases(statement)
  IN Cardinality(alias) = 1 /\ alias \subseteq aliasSet

WhereThrow(w) ==
  [ok |-> FALSE, w |-> w, node |-> WhereNode("none", NoStatement, EmptyBag, <<>>),
   drawn |-> 0]

createSingleStatement(w, statement, parameters, base) ==
  IF parameters.given /\ ~checkParameterValid(statement, parameters.map)
  THEN WhereThrow(w)
  ELSE LET r == randomizeParameterKeys(statement, parameters.map, base)
       IN [ok |-> TRUE,
           w |-> [w EXCEPT !.parameters = mergeProperties(@, r.parameters)],
           node |-> WhereNode("statement", r.statement, r.parameters, <<>>),
           drawn |-> r.drawn]

RECURSIVE commonNodeHandler(_, _, _), RunBuilderFunction(_, _, _, _)
RECURSIVE whereCall(_, _, _, _)

\* _commonNodeHandler(arg1, arg2)
commonNodeHandler(w, arg, base) ==
  IF arg.kind = "function"
  THEN LET run == RunBuilderFunction(NewWhereClauseBuilder(w.aliasSet),
                                     arg.script, base, 0)
       IN IF ~run.ok THEN WhereThrow(w)
          ELSE [ok |-> TRUE,
                w |-> [w EXCEPT !.parameters = mergeProperties(@, run.w.parameters)],
                node |-> WhereNode("bracket", NoStatement, EmptyBag, run.w.nodes),
                drawn |-> run.drawn]
  ELSE createSingleStatement(w, arg.statement, arg.parameters, base)

\* builderFunction(builder): the calls of the function, in order, on `w`
RunBuilderFunction(w, script, base, drawn) ==
  IF script = <<>> THEN [ok |-> TRUE, w |-> w, drawn |-> drawn]
  ELSE LET res == whereCall(w, Head(script).op, Head(script).arg, base + drawn)
       IN IF ~res.ok THEN [ok |-> FALSE, w |-> w, drawn |-> drawn]
          ELSE RunBuilderFunction(res.w, Tail(script), base, drawn + res.drawn)

\* whereAddUnguarded is add without the check of _whereNodeList.length
whereAddUnguarded(w, arg, base) ==
  LET h == commonNodeHandler(w, arg, base)
  IN IF ~h.ok THEN WhereThrow(w)
     ELSE [h EXCEPT !.w.nodes = Append(@, h.node)]

\* WhereClauseBuilder.add / and / or
whereAdd(w, arg, base) ==
  IF Len(w.nodes) # 0 THEN WhereThrow(w)
  ELSE LET h == commonNodeHandler(w, arg, base)
       IN IF ~h.ok THEN WhereThrow(w)
          ELSE [h EXCEPT !.w.nodes = Append(@, h.node)]

whereAnd(w, arg, base) ==
  LET h == commonNodeHandler(w, arg, base)
  IN IF ~h.ok THEN WhereThrow(w)
     ELSE [h EXCEPT !.w.nodes =
             @ \o <<WhereNode("and", NoStatement, EmptyBag, <<>>), h.node>>]

whereOr(w, arg, base) ==
  LET h == commonNodeHandler(w, arg, base)
  IN IF ~h.ok THEN WhereThrow(w)
     ELSE [h EXCEPT !.w.nodes =
             @ \o <<WhereNode("or", NoStatement, EmptyBag, <<>>), h.node>>]

whereCall(w, op, arg, base) ==
  CASE op = "add" -> whereAdd(w, arg, base)
    [] op = "and" -> whereAnd(w, arg, base)
    [] op = "or" -> whereOr(w, arg, base)

\* a token of the flattened text
Token(t, statement) == [t |-> t, statement |-> statement]
Word(t) == Token(t, NoStatement)

\* _buildNodes(nodes, currentQueryList, currentParameters), validating against
\* the alias set of the builder it runs on
RECURSIVE buildNodes(_, _, _, _)
buildNodes(aliasSet, nodes, currentQueryList, currentParameters) ==
  IF nodes = <<>>
  THEN [ok |-> TRUE, query |-> currentQueryList, parameters |-> currentParameters]
  ELSE LET node == Head(nodes)
       IN CASE node.type = "statement" ->
                 IF ~checkAliasValid(aliasSet, node.statement)
                 THEN [ok |-> FALSE, query |-> currentQueryList,
                       parameters |-> currentParameters]
                 ELSE buildNodes(aliasSet, Tail(nodes),
                        Append(currentQueryList, Token("statement", node.statement)),
                        mergeProperties(currentParameters, node.parameters))
            [] node.type = "and" ->
                 buildNodes(aliasSet, Tail(nodes),
                            Append(currentQueryList, Word("AND")), currentParameters)
            [] node.type = "or" ->
                 buildNodes(aliasSet, Tail(nodes),
                            Append(currentQueryList, Word("OR")), currentParameters)
            [] node.type = "bracket" ->
                 LET sub == buildNodes(aliasSet, node.subNodes, <<>>, EmptyBag)
                 IN IF ~sub.ok
                    THEN [ok |-> FALSE, query |-> currentQueryList,
                          parameters |-> currentParameters]
                    ELSE buildNodes(aliasSet, Tail(nodes),
                           currentQueryList \o <<Word("(")>> \o sub.query \o <<Word(")")>>,
                           mergeProperties(currentParameters, sub.parameters))

\* WhereClauseBuilder.setAliasList
whereSetAliasList(w, aliases) == [w EXCEPT !.aliasSet = aliases]

\* WhereClauseBuilder.toParameterizedQuery
WhereToParameterizedQuery(w) ==
  IF Len(w.nodes) = 0
  THEN [ok |-> TRUE, w |-> w, query |-> <<>>, parameters |-> EmptyBag]
  ELSE LET b == buildNodes(w.aliasSet, w.nodes, <<>>, w.parameters)
       IN [ok |-> b.ok, w |-> [w EXCEPT !.parameters = b.parameters],
           query |-> IF b.ok THEN <<Word("WHERE")>> \o b.query ELSE <<>>,
           parameters |-> IF b.ok THEN b.parameters ELSE EmptyBag]

-----------------------------------------------------------------------------
(* WhereClauseBuilder: one builder, any call order *)

\* add/and/or calls made on one WhereClauseBuilder
MaxWhereCalls == 2

\* 'a.x = 1', 'b.x = $k', 'a.y = $k', 'a.x = $k AND a.y = $j', 'a.x = b',
\* 'a.x = b.x', '1 = 1';
\* the values of a map are "v1", "v2" and the number 0, written "0"
StA == Statement(<<Ref("a", "dot")>>, <<>>)
StBk == Statement(<<Ref("b", "dot")>>, <<"k">>)
StAk == Statement(<<Ref("a", "dot")>>, <<"k">>)
StAkj == Statement(<<Ref("a", "dot"), Ref("a", "dot")>>, <<"k", "j">>)
StABare == Statement(<<Ref("a", "dot"), Ref("b", "bare")>>, <<>>)
StAB == Statement(<<Ref("a", "dot"), Ref("b", "dot")>>, <<>>)
StNone == Statement(<<>>, <<>>)

MapK(v) == [n \in {"k"} |-> v]
MapKJ(v, w) == [n \in {"k", "j"} |-> IF n = "k" THEN v ELSE w]
MapNone == [n \in {} |-> "undefined"]

WhereStatementArgs ==
  { StatementArg(StA, NoParameters),
    StatementArg(StBk, Parameters(MapK("v1"))),
    StatementArg(StAk, Parameters(MapK("v2"))),
    StatementArg(StAkj, Parameters(MapKJ("v1", "v2"))),
    StatementArg(StAk, Parameters(MapNone)),
    StatementArg(StAk, Parameters(MapK("0"))),
    StatementArg(StA, Parameters(MapK("v1"))),
    StatementArg(StABare, NoParameters),
    StatementArg(StAB, NoParameters),
    StatementArg(StNone, NoParameters) }

\* builder functions: add(..).or(..); and(..) as the first call; a nested bracket
WhereFunctionArgs ==
  { FunctionArg(<<Call("add", StatementArg(StBk, Parameters(MapK("v1")))),
                  Call("or", StatementArg(StAk, Parameters(MapK("v2"))))>>),
    FunctionArg(<<Call("and", StatementArg(StA, NoParameters))>>),
    FunctionArg(<<Call("add", StatementArg(StA, NoParameters)),
                  Call("and", FunctionArg(
                     <<Call("add", StatementArg(StBk, Parameters(MapK("v1"))))>>))>>) }

WhereArgs == WhereStatementArgs \cup WhereFunctionArgs

WhereScopes == {{}, {"a"}, {"a", "b"}}

\* wbLast is the last call when it was add/and/or, wbResult what the last call
\* returned when it was toParameterizedQuery; wbScope is the list last given to
\* setAliasList (or to the constructor)
NoWhereResult == [status |-> "none", query |-> <<>>, parameters |-> EmptyBag]
NoWhereCall ==
  [op |-> "none", arg |-> FunctionArg(<<>>), ok |-> TRUE, wasEmpty |-> TRUE,
   scope |-> {}, addedBefore |-> FALSE, added |-> FALSE]

\* added: an add call has returned on the builder; addedBefore: one had
\* returned before the last call was made
NotACall(last) == [NoWhereCall EXCEPT !.addedBefore = last.added, !.added = last.added]

WhereInit ==
  /\ wb = NewWhereClauseBuilder({})
  /\ wbResult = NoWhereResult
  /\ wbCalls = 0
  /\ wbLast = NoWhereCall
  /\ wbScope = {}
  /\ uuid = 0

WhereOp(op, arg) ==
  /\ wbCalls < MaxWhereCalls
  /\ LET res == whereCall(wb, op, arg, uuid)
     IN /\ wb' = res.w
        /\ uuid' = uuid + res.drawn
        /\ wbLast' = [op |-> op, arg |-> arg, ok |-> res.ok,
                      wasEmpty |-> Len(wb.nodes) = 0, scope |-> wb.aliasSet,
                      addedBefore |-> wbLast.added,
                      added |-> (wbLast.added \/ (op = "add" /\ res.ok))]
  /\ wbCalls' = wbCalls + 1
  /\ wbResult' = NoWhereResult
  /\ UNCHANGED <<wbScope, pathVars, queryVars, restVars>>

WhereAdd == \E arg \in WhereArgs : WhereOp("add", arg)
WhereAnd == \E arg \in WhereArgs : WhereOp("and", arg)
WhereOr == \E arg \in WhereArgs : WhereOp("or", arg)

WhereSetAliasList ==
  \E aliases \in WhereScopes :
    /\ wb' = whereSetAliasList(wb, aliases)
    /\ wbResult' = NoWhereResult
    /\ wbLast' = NotACall(wbLast)
    /\ wbScope' = aliases
    /\ UNCHANGED <<wbCalls, uuid, pathVars, queryVars, restVars>>

WhereFinalize ==
  /\ LET res == WhereToParameterizedQuery(wb)
     IN /\ wb' = res.w
        /\ wbResult' = [status |-> IF res.ok THEN "ok" ELSE "throw",
                        query |-> res.query, parameters |-> res.parameters]
  /\ wbLast' = NotACall(wbLast)
  /\ UNCHANGED <<wbCalls, wbScope, uuid, pathVars, queryVars, restVars>>

WhereNext == WhereAdd \/ WhereAnd \/ WhereOr \/ WhereSetAliasList \/ WhereFinalize

-----------------------------------------------------------------------------
(* Clause builders (clause/) *)

\* a builder function for a path pattern, given as the calls it makes on the
\* PathPatternBuilder it receives
PathStep(op, alias) == [op |-> op, alias |-> alias]

pathCall(b, op, alias) ==
  CASE op = "setNode" -> setNode(b, alias)
    [] op = "setRelationship" -> setRelationship(b, alias)
    [] op = "toNode" -> toNode(b, alias)
    [] op = "fromNode" -> fromNode(b, alias)
    [] op = "addNode" -> addNode(b, alias)
    [] op = "toRelationship" -> toRelationship(b, alias)
    [] op = "fromRelationship" -> fromRelationship(b, alias)

\* builder(pathBuilder): the calls of the function, in order
RECURSIVE RunPathFunction(_, _)
RunPathFunction(b, script) ==
  IF script = <<>> THEN Ok(b)
  ELSE LET res == pathCall(b, Head(script).op, Head(script).alias)
       IN IF ~res.ok THEN Throw(res.pb)
          ELSE RunPathFunction(res.pb, Tail(script))

\* one line of the assembled text: the clause keyword and what follows it
\* (patterns, WHERE tokens, RETURN / ORDER BY items or a number); a clause
\* that renders as "" gives the keyword ""
Line(clause, paths, tokens, items, value) ==
  [clause |-> clause, paths |-> paths, tokens |-> tokens, items |-> items,
   value |-> value]
BlankLine == Line("", <<>>, <<>>, <<>>, 0)

\* an entry of _returnStatements (`statement AS tag`) or of _orderByStatements
\* (`statement tag`)
Item(statement, tag) == [statement |-> statement, tag |-> tag]

\* PathPatternCommonClauseBuilder._mergeAliasSet: no conflict check
\* clauseMergeAliasSetDisjoint keeps an alias only if one side alone has it
clauseMergeAliasSetDisjoint(targetSet, sourceSet) ==
  (targetSet \cup sourceSet) \ (targetSet \cap sourceSet)

clauseMergeAliasSet(targetSet, sourceSet) == targetSet \cup sourceSet

\* PathPatternCommonClauseBuilder.addPathPattern(builder)
addPathPattern(patterns, builder) == Append(patterns, builder)

\* the loop of PathPatternCommonClauseBuilder.toParameterizedQuery: each
\* pattern is finalized in order, which changes the pattern builder; `res` is
\* what the i-th pattern returned
RECURSIVE PatternLoop(_, _, _, _), PatternStep(_, _, _, _, _)
PatternLoop(patterns, i, queryList, aliasSet) ==
  IF i > Len(patterns)
  THEN [ok |-> TRUE, patterns |-> patterns, queryList |-> queryList,
        aliasSet |-> aliasSet]
  ELSE PatternStep(patterns, i, queryList, aliasSet,
                   PathToParameterizedQuery(patterns[i]))
PatternStep(patterns, i, queryList, aliasSet, res) ==
  IF ~res.ok
  THEN [ok |-> FALSE, patterns |-> [patterns EXCEPT ![i] = res.pb],
        queryList |-> queryList, aliasSet |-> aliasSet]
  ELSE PatternLoop([patterns EXCEPT ![i] = res.pb], i + 1,
                   Append(queryList, res.query),
                   clauseMergeAliasSet(aliasSet, res.aliases))

\* what PathPatternCommonClauseBuilder.toParameterizedQuery returns after its loop
ClauseResult(queryPrefix, loop) ==
  [ok |-> loop.ok, builder |-> loop.patterns,
   line |-> IF loop.ok /\ Len(loop.queryList) > 0
            THEN Line(queryPrefix, loop.queryList, <<>>, <<>>, 0)
            ELSE BlankLine,
   aliasSet |-> IF loop.ok THEN loop.aliasSet ELSE {},
   parameters |-> EmptyBag]

\* PathPatternCommonClauseBuilder.toParameterizedQuery
ClauseToParameterizedQuery(queryPrefix, patterns) ==
  ClauseResult(queryPrefix, PatternLoop(patterns, 1, <<>>, {}))

\* ReturnClauseBuilder
NewReturnClauseBuilder(aliases) == [aliasSet |-> aliases, statements |-> <<>>]

\* the statement '*'
Star == Statement(<<>>, <<>>)

returnCheckAlias(r, item) == extractAliases(item.statement) \subseteq r.aliasSet

returnSetAliasListMerge(r, aliases) == [r EXCEPT !.aliasSet = @ \cup aliases]
returnSetAliasList(r, aliases) == [r EXCEPT !.aliasSet = aliases]

returnAdd(r, statement, alias) ==
  IF statement = Star THEN [r EXCEPT !.statements = Append(@, Item(statement, ""))]
  ELSE [r EXCEPT !.statements = Append(@, Item(statement, alias))]

ReturnToParameterizedQuery(r) ==
  IF Len(r.statements) = 0
  THEN [ok |-> TRUE, builder |-> r, line |-> BlankLine, parameters |-> EmptyBag]
  ELSE IF \E i \in 1..Len(r.statements) : ~returnCheckAlias(r, r.statements[i])
  THEN [ok |-> FALSE, builder |-> r, line |-> BlankLine, parameters |-> EmptyBag]
  ELSE [ok |-> TRUE, builder |-> r,
        line |-> Line("RETURN", <<>>, <<>>, r.statements, 0),
        parameters |-> EmptyBag]

\* OrderByClauseBuilder
NewOrderByClauseBuilder(aliases) == [aliasSet |-> aliases, statements |-> <<>>]

orderByCheckAlias(o, item) == extractAliases(item.statement) \subseteq o.aliasSet

orderBySetAliasList(o, aliases) == [o EXCEPT !.aliasSet = aliases]

orderByAdd(o, statement, direction) ==
  IF direction \notin {"ASC", "DESC"} THEN [ok |-> FALSE, builder |-> o]
  ELSE [ok |-> TRUE,
        builder |-> [o EXCEPT !.statements = Append(@, Item(statement, direction))]]

OrderByToParameterizedQuery(o) ==
  IF Len(o.statements) = 0
  THEN [ok |-> TRUE, builder |-> o, line |-> BlankLine, parameters |-> EmptyBag]
  ELSE IF \E i \in 1..Len(o.statements) : ~orderByCheckAlias(o, o.statements[i])
  THEN [ok |-> FALSE, builder |-> o, line |-> BlankLine, parameters |-> EmptyBag]
  ELSE [ok |-> TRUE, builder |-> o,
        line |-> Line("ORDER BY", <<>>, <<>>, o.statements, 0),
        parameters |-> EmptyBag]

-----------------------------------------------------------------------------
(* QueryBuilder (query-builder.ts) *)

SelectiveTypes == {"MATCH", "OPTIONAL MATCH", "MERGE", "CREATE"}

\* _componentNodeMap: one slot for each clause type
NewQueryBuilder ==
  [select |-> [t \in SelectiveTypes |-> [present |-> FALSE, patterns |-> <<>>]],
   where |-> [present |-> FALSE, builder |-> NewWhereClauseBuilder({})],
   orderBy |-> [present |-> FALSE, builder |-> NewOrderByClauseBuilder({})],
   return |-> [present |-> FALSE, builder |-> NewReturnClauseBuilder({})],
   skip |-> [present |-> FALSE, value |-> 0],
   limit |-> [present |-> FALSE, value |-> 0],
   offset |-> [present |-> FALSE, value |-> 0],
   finish |-> FALSE]

QueryOk(q) == [ok |-> TRUE, qb |-> q, drawn |-> 0]
QueryThrow(q) == [ok |-> FALSE, qb |-> q, drawn |-> 0]

\* match / optionalMatch / create / merge (...builders): a new clause builder
\* with one pattern for each builder function replaces the slot
\* selectClauseAppending is a match that keeps the patterns the slot holds
selectClauseAppending(q, type, builders) ==
  LET runs == [i \in 1..Len(builders) |->
                 RunPathFunction(NewPathPatternBuilder, builders[i])]
  IN IF \E i \in 1..Len(builders) : ~runs[i].ok THEN QueryThrow(q)
     ELSE QueryOk([q EXCEPT !.select[type] =
            [present |-> TRUE,
             patterns |-> (IF q.select[type].present THEN q.select[type].patterns
                           ELSE <<>>)
                          \o [i \in 1..Len(builders) |-> runs[i].pb]]])

selectClause(q, type, builders) ==
  LET runs == [i \in 1..Len(builders) |->
                 RunPathFunction(NewPathPatternBuilder, builders[i])]
  IN IF \E i \in 1..Len(builders) : ~runs[i].ok THEN QueryThrow(q)
     ELSE QueryOk([q EXCEPT !.select[type] =
            [present |-> TRUE,
             patterns |-> [i \in 1..Len(builders) |-> runs[i].pb]]])

\* addMatch / addOptionalMatch / addCreate / addMerge (builderFunction)
\* addSelectClauseReplacing is an addMatch that always starts the clause afresh
addSelectClauseReplacing(q, type, builderFunction) ==
  selectClause(q, type, <<builderFunction>>)

addSelectClause(q, type, builderFunction) ==
  IF ~q.select[type].present THEN selectClause(q, type, <<builderFunction>>)
  ELSE LET run == RunPathFunction(NewPathPatternBuilder, builderFunction)
       IN IF ~run.ok THEN QueryThrow(q)
          ELSE QueryOk([q EXCEPT !.select[type].patterns =
                          addPathPattern(@, run.pb)])

\* where(builder)
queryWhere(q, script, base) ==
  IF q.where.present THEN QueryThrow(q)
  ELSE LET run == RunBuilderFunction(NewWhereClauseBuilder({}), script, base, 0)
       IN IF ~run.ok THEN [ok |-> FALSE, qb |-> q, drawn |-> run.drawn]
          ELSE [ok |-> TRUE,
                qb |-> [q EXCEPT !.where = [present |-> TRUE, builder |-> run.w]],
                drawn |-> run.drawn]

\* addWhere(builder): the function runs on the builder of the slot, so the
\* calls it made before one that throws stay
queryAddWhere(q, script, base) ==
  IF ~q.where.present THEN QueryThrow(q)
  ELSE LET run == RunBuilderFunction(q.where.builder, script, base, 0)
       IN [ok |-> run.ok, qb |-> [q EXCEPT !.where.builder = run.w],
           drawn |-> run.drawn]

\* the argument of return / orderBy: a ready-made builder, a builder function
\* (given as the items it adds), a statement with its alias or direction, or
\* (return only) an array of statements
BuilderArg(builder) == [kind |-> "builder", builder |-> builder, items |-> <<>>]
ItemsArg(kind, items) ==
  [kind |-> kind, builder |-> NewReturnClauseBuilder({}), items |-> items]

RECURSIVE returnAddAll(_, _)
returnAddAll(r, items) ==
  IF items = <<>> THEN r
  ELSE returnAddAll(returnAdd(r, Head(items).statement, Head(items).tag), Tail(items))

\* return(arg1, arg2)
queryReturn(q, arg) ==
  IF arg.kind = "builder"
  THEN QueryOk([q EXCEPT !.return = [present |-> TRUE, builder |-> arg.builder]])
  ELSE IF arg.kind \in {"function", "string", "array"}
  THEN QueryOk([q EXCEPT !.return =
         [present |-> TRUE,
          builder |-> returnAddAll(NewReturnClauseBuilder({}), arg.items)]])
  ELSE QueryThrow(q)

\* addReturn(statement, alias)
queryAddReturn(q, statement, alias) ==
  IF q.return.present
  THEN QueryOk([q EXCEPT !.return.builder = returnAdd(@, statement, alias)])
  ELSE queryReturn(q, ItemsArg("string", <<Item(statement, alias)>>))

\* finish()
queryFinish(q) == QueryOk([q EXCEPT !.finish = TRUE])

RECURSIVE orderByAddAll(_, _)
orderByAddAll(o, items) ==
  IF items = <<>> THEN [ok |-> TRUE, builder |-> o]
  ELSE LET res == orderByAdd(o, Head(items).statement, Head(items).tag)
       IN IF ~res.ok THEN res ELSE orderByAddAll(res.builder, Tail(items))

\* orderBy(arg1, direction)
queryOrderBy(q, arg) ==
  IF arg.kind = "builder"
  THEN QueryOk([q EXCEPT !.orderBy = [present |-> TRUE, builder |-> arg.builder]])
  ELSE IF arg.kind = "function"
  THEN LET res == orderByAddAll(NewOrderByClauseBuilder({}), arg.items)
       IN IF ~res.ok THEN QueryThrow(q)
          ELSE QueryOk([q EXCEPT !.orderBy =
                          [present |-> TRUE, builder |-> res.builder]])
  ELSE IF arg.kind = "string"
  THEN IF q.orderBy.present THEN QueryThrow(q)
       ELSE LET res == orderByAddAll(NewOrderByClauseBuilder({}), arg.items)
            IN IF ~res.ok THEN QueryThrow(q)
               ELSE QueryOk([q EXCEPT !.orderBy =
                               [present |-> TRUE, builder |-> res.builder]])
  ELSE QueryThrow(q)

\* addOrderBy(statement, direction)
queryAddOrderBy(q, statement, direction) ==
  LET o == IF q.orderBy.present THEN q.orderBy.builder
           ELSE NewOrderByClauseBuilder({})
      res == orderByAdd(o, statement, direction)
  IN IF ~res.ok THEN QueryThrow(q)
     ELSE QueryOk([q EXCEPT !.orderBy = [present |-> TRUE, builder |-> res.builder]])

\* skip(n), limit(n), offset(n)
querySkip(q, n) == QueryOk([q EXCEPT !.skip = [present |-> TRUE, value |-> n]])
queryLimit(q, n) == QueryOk([q EXCEPT !.limit = [present |-> TRUE, value |-> n]])
queryOffset(q, n) == QueryOk([q EXCEPT !.offset = [present |-> TRUE, value |-> n]])

\* queryContext, with the builder as the finalizing calls leave it and the
\* clause whose finalizing threw
NewQueryContext(q) ==
  [ok |-> TRUE, qb |-> q, aliasSet |-> {}, query |-> <<>>,
   parameters |-> EmptyBag, thrownAt |-> "none"]

ContextThrow(ctx, q, type) == [ctx EXCEPT !.ok = FALSE, !.qb = q, !.thrownAt = type]

\* _appendQueryContext(queryContext, parameterizedQuery, mergeAliasSet)
appendQueryContext(ctx, line, parameters, aliasSet, doMergeAliasSet) ==
  [ctx EXCEPT !.query = Append(@, line),
              !.parameters = mergeProperties(@, parameters),
              !.aliasSet = IF doMergeAliasSet THEN @ \cup aliasSet ELSE @]

\* the blocks of toParameterizedQuery, in the order of the code
AssemblyOrderCreateFirst ==
  <<"CREATE", "MATCH", "OPTIONAL MATCH", "MERGE", "WHERE", "ORDER BY", "SKIP",
    "LIMIT", "OFFSET", "RETURN", "FINISH">>
AssemblyOrder ==
  <<"MATCH", "OPTIONAL MATCH", "MERGE", "CREATE", "WHERE", "ORDER BY", "SKIP",
    "LIMIT", "OFFSET", "RETURN", "FINISH">>

\* what a block does with the result `pq` of its clause builder
AppendSelective(ctx, type, pq) ==
  IF ~pq.ok
  THEN ContextThrow(ctx, [ctx.qb EXCEPT !.select[type].patterns = pq.builder], type)
  ELSE appendQueryContext([ctx EXCEPT !.qb.select[type].patterns = pq.builder],
                          pq.line, pq.parameters, pq.aliasSet, TRUE)

AppendWhere(ctx, pq) ==
  IF ~pq.ok
  THEN ContextThrow(ctx, [ctx.qb EXCEPT !.where.builder = pq.w], "WHERE")
  ELSE appendQueryContext([ctx EXCEPT !.qb.where.builder = pq.w],
                          IF pq.query = <<>> THEN BlankLine
                          ELSE Line("WHERE", <<>>, Tail(pq.query), <<>>, 0),
                          pq.parameters, {}, FALSE)

AppendOrderBy(ctx, pq) ==
  IF ~pq.ok
  THEN ContextThrow(ctx, [ctx.qb EXCEPT !.orderBy.builder = pq.builder], "ORDER BY")
  ELSE appendQueryContext([ctx EXCEPT !.qb.orderBy.builder = pq.builder],
                          pq.line, pq.parameters, {}, FALSE)

AppendReturn(ctx, pq) ==
  IF ~pq.ok
  THEN ContextThrow(ctx, [ctx.qb EXCEPT !.return.builder = pq.builder], "RETURN")
  ELSE appendQueryContext([ctx EXCEPT !.qb.return.builder = pq.builder],
                          pq.line, pq.parameters, {}, FALSE)

AppendNumber(ctx, type, value) ==
  [ctx EXCEPT !.query = Append(@, Line(type, <<>>, <<>>, <<>>, value))]

\* the check `if (returnComponent && finishComponent)` of toParameterizedQuery;
\* BothReturnAndFinishUnchecked is the variant without it
BothReturnAndFinishUnchecked(q) == FALSE
BothReturnAndFinish(q) == q.return.present /\ q.finish

\* one block of toParameterizedQuery
Assemble(ctx, type) ==
  CASE type \in SelectiveTypes ->
         IF ~ctx.qb.select[type].present THEN ctx
         ELSE AppendSelective(ctx, type,
                ClauseToParameterizedQuery(type, ctx.qb.select[type].patterns))
    [] type = "WHERE" ->
         IF ~ctx.qb.where.present THEN ctx
         ELSE AppendWhere(ctx, WhereToParameterizedQuery(
                whereSetAliasList(ctx.qb.where.builder, ctx.aliasSet)))
    [] type = "ORDER BY" ->
         IF ~ctx.qb.orderBy.present THEN ctx
         ELSE AppendOrderBy(ctx, OrderByToParameterizedQuery(
                orderBySetAliasList(ctx.qb.orderBy.builder, ctx.aliasSet)))
    [] type = "SKIP" ->
         IF ~ctx.qb.skip.present THEN ctx
         ELSE AppendNumber(ctx, "SKIP", ctx.qb.skip.value)
    [] type = "LIMIT" ->
         IF ~ctx.qb.limit.present THEN ctx
         ELSE AppendNumber(ctx, "LIMIT", ctx.qb.limit.value)
    [] type = "OFFSET" ->
         IF ~ctx.qb.offset.present THEN ctx
         ELSE AppendNumber(ctx, "OFFSET", ctx.qb.offset.value)
    [] type = "RETURN" ->
         IF BothReturnAndFinish(ctx.qb)
         THEN ContextThrow(ctx, ctx.qb, "FINISH")
         ELSE IF ~ctx.qb.return.present THEN ctx
         ELSE AppendReturn(ctx, ReturnToParameterizedQuery(
                returnSetAliasList(ctx.qb.return.builder, ctx.aliasSet)))
    [] type = "FINISH" ->
         IF ~ctx.qb.finish THEN ctx
         ELSE AppendNumber(ctx, "FINISH", 0)

RECURSIVE AssembleAll(_, _)
AssembleAll(ctx, order) ==
  IF order = <<>> \/ ~ctx.ok THEN ctx
  ELSE AssembleAll(Assemble(ctx, Head(order)), Tail(order))

\* QueryBuilder.toParameterizedQuery
QueryToParameterizedQuery(q) == AssembleAll(NewQueryContext(q), AssemblyOrder)

-----------------------------------------------------------------------------
(* QueryBuilder: one builder, any call order *)

\* calls made on one QueryBuilder, toParameterizedQuery included
MaxQueryCalls == 4

\* p => p.setNode({alias:'a'}), p => p.setNode({alias:'b'}),
\* p => p.setNode({alias:'a'}).toRelationship({alias:'r'}).toNode({alias:'b'})
PatA == <<PathStep("setNode", "a")>>
PatB == <<PathStep("setNode", "b")>>
PatARB ==
  <<PathStep("setNode", "a"), PathStep("toRelationship", "r"), PathStep("toNode", "b")>>

QueryPatternLists == {<<PatA>>, <<PatB>>}
QueryPatterns == {PatARB}

\* w => w.add('b.x = $k', {k}), w => w.add('a.x = b')
QueryWhereFunctions ==
  {<<Call("add", StatementArg(StBk, Parameters(MapK("v1"))))>>,
   <<Call("add", StatementArg(StABare, NoParameters))>>}
\* w => w.and('a.y = $k', {k})
QueryAddWhereFunctions ==
  {<<Call("and", StatementArg(StAk, Parameters(MapK("v2"))))>>}

\* 'm', 'm.x', 'b.x'
StMBare == Statement(<<Ref("m", "bare")>>, <<>>)
StM == Statement(<<Ref("m", "dot")>>, <<>>)
StB == Statement(<<Ref("b", "dot")>>, <<>>)

\* return('m'), return(['a.x', 'b.x']), return(r => r.add('b.x')),
\* return(new ReturnClauseBuilder({aliases: ['m']}).add('m.x'))
QueryReturnArgs ==
  {ItemsArg("string", <<Item(StMBare, "")>>),
   ItemsArg("array", <<Item(StA, ""), Item(StB, "")>>),
   ItemsArg("function", <<Item(StB, "")>>),
   BuilderArg(returnAdd(NewReturnClauseBuilder({"m"}), StM, ""))}

\* orderBy('a.x'), orderBy(o => o.add('b.x')),
\* orderBy(new OrderByClauseBuilder({aliases: ['m']}).add('a.x'))
QueryOrderByArgs ==
  {ItemsArg("string", <<Item(StA, "ASC")>>),
   ItemsArg("function", <<Item(StB, "ASC")>>),
   BuilderArg(orderByAdd(NewOrderByClauseBuilder({"m"}), StA, "ASC").builder)}

QueryNumbers == {-1, 3}

NoQueryResult ==
  [status |-> "none", query |-> <<>>, parameters |-> EmptyBag, aliasSet |-> {},
   thrownAt |-> "none"]

\* what the caller did to a selective clause: the builder functions it gave,
\* in order, since the last call that was to start the clause afresh;
\* replaced: that call found the slot filled; seeded: the clause was started by
\* an add method; appended: an add method found the slot filled
NoSelectCalls ==
  [scripts |-> <<>>, replaced |-> FALSE, seeded |-> FALSE, appended |-> FALSE]

\* the last call, when it was where or orderBy on a builder that had the
\* clause already: the method and the overload used
NoSecondCall == [name |-> "none", overload |-> ""]

QueryInit ==
  /\ qb = NewQueryBuilder
  /\ qbResult = NoQueryResult
  /\ qbCalls = 0
  /\ qbThrew = "none"
  /\ qbHeld = {}
  /\ qbReordered = FALSE
  /\ qbSelect = [t \in SelectiveTypes |-> NoSelectCalls]
  /\ qbSecond = NoSecondCall

\* the clause a method fills
MethodClause(name) ==
  CASE name \in {"match", "addMatch"} -> "MATCH"
    [] name \in {"optionalMatch", "addOptionalMatch"} -> "OPTIONAL MATCH"
    [] name \in {"merge", "addMerge"} -> "MERGE"
    [] name \in {"create", "addCreate"} -> "CREATE"
    [] name \in {"where", "addWhere"} -> "WHERE"
    [] name \in {"orderBy", "addOrderBy"} -> "ORDER BY"
    [] name = "skip" -> "SKIP"
    [] name = "limit" -> "LIMIT"
    [] name = "offset" -> "OFFSET"
    [] name \in {"return", "addReturn"} -> "RETURN"
    [] name = "finish" -> "FINISH"

\* the clauses whose slot is filled
Present(q) ==
  {t \in SelectiveTypes : q.select[t].present}
  \cup (IF q.where.present THEN {"WHERE"} ELSE {})
  \cup (IF q.orderBy.present THEN {"ORDER BY"} ELSE {})
  \cup (IF q.skip.present THEN {"SKIP"} ELSE {})
  \cup (IF q.limit.present THEN {"LIMIT"} ELSE {})
  \cup (IF q.offset.present THEN {"OFFSET"} ELSE {})
  \cup (IF q.return.present THEN {"RETURN"} ELSE {})
  \cup (IF q.finish THEN {"FINISH"} ELSE {})

\* the place of a clause in the documented order of a query
ClauseRank(type) ==
  CASE type = "MATCH" -> 1
    [] type = "OPTIONAL MATCH" -> 2
    [] type = "MERGE" -> 3
    [] type = "CREATE" -> 4
    [] type = "WHERE" -> 5
    [] type = "ORDER BY" -> 6
    [] type = "SKIP" -> 7
    [] type = "LIMIT" -> 8
    [] type = "OFFSET" -> 9
    [] type \in {"RETURN", "FINISH"} -> 10

\* a call on the builder: qbThrew is the call when it threw, qbHeld the clauses
\* whose builder was handed over holding an alias list (`held` is what the call
\* changes there), qbReordered whether some accepted call filled a clause
\* that stands before one already filled
AfterSelectCall(name, wasPresent, calls, builders) ==
  IF name \in {"match", "optionalMatch", "create", "merge"}
  THEN [scripts |-> builders, replaced |-> wasPresent, seeded |-> FALSE,
        appended |-> FALSE]
  ELSE IF wasPresent
  THEN [calls EXCEPT !.scripts = @ \o builders, !.appended = TRUE]
  ELSE [scripts |-> builders, replaced |-> FALSE, seeded |-> TRUE,
        appended |-> FALSE]

QueryCallOf(name, overload, res, held, builders) ==
  /\ qbCalls < MaxQueryCalls
  /\ qbSecond' = IF \/ name = "where" /\ qb.where.present
                    \/ name = "orderBy" /\ qb.orderBy.present
                 THEN [name |-> name, overload |-> overload]
                 ELSE NoSecondCall
  /\ qbSelect' = IF res.ok /\ MethodClause(name) \in SelectiveTypes
                 THEN [qbSelect EXCEPT ![MethodClause(name)] =
                         AfterSelectCall(name, qb.select[MethodClause(name)].present,
                                         @, builders)]
                 ELSE qbSelect
  /\ qb' = res.qb
  /\ uuid' = uuid + res.drawn
  /\ qbCalls' = qbCalls + 1
  /\ qbThrew' = IF res.ok THEN "none" ELSE name
  /\ qbResult' = NoQueryResult
  /\ qbHeld' = IF res.ok THEN (qbHeld \ held.drop) \cup held.add ELSE qbHeld
  /\ qbReordered' = (qbReordered \/
                      (res.ok /\ \E t \in Present(qb) :
                                   ClauseRank(MethodClause(name)) < ClauseRank(t)))
  /\ UNCHANGED <<pathVars, wb, wbResult, wbCalls, wbLast, wbScope, restVars>>

QueryCallWith(name, res, held, builders) ==
  QueryCallOf(name, "", res, held, builders)
QueryCall(name, res, held) == QueryCallWith(name, res, held, <<>>)

NoHeld == [drop |-> {}, add |-> {}]
Held(type, arg) ==
  [drop |-> {type},
   add |-> IF arg.kind = "builder" /\ arg.builder.aliasSet # {} THEN {type} ELSE {}]

Match == \E bs \in QueryPatternLists :
  QueryCallWith("match", selectClause(qb, "MATCH", bs), NoHeld, bs)
AddMatch == \E b \in QueryPatterns :
  QueryCallWith("addMatch", addSelectClause(qb, "MATCH", b), NoHeld, <<b>>)
OptionalMatch == \E bs \in {<<PatB>>} :
  QueryCallWith("optionalMatch", selectClause(qb, "OPTIONAL MATCH", bs), NoHeld, bs)
AddOptionalMatch == \E b \in QueryPatterns :
  QueryCallWith("addOptionalMatch", addSelectClause(qb, "OPTIONAL MATCH", b), NoHeld, <<b>>)
Create == \E bs \in {<<PatB>>} :
  QueryCallWith("create", selectClause(qb, "CREATE", bs), NoHeld, bs)
AddCreate == \E b \in QueryPatterns :
  QueryCallWith("addCreate", addSelectClause(qb, "CREATE", b), NoHeld, <<b>>)
Merge == \E bs \in {<<PatB>>} :
  QueryCallWith("merge", selectClause(qb, "MERGE", bs), NoHeld, bs)
AddMerge == \E b \in QueryPatterns :
  QueryCallWith("addMerge", addSelectClause(qb, "MERGE", b), NoHeld, <<b>>)
Where == \E f \in QueryWhereFunctions :
  QueryCallOf("where", "function", queryWhere(qb, f, uuid), NoHeld, <<>>)
AddWhere == \E f \in QueryAddWhereFunctions :
  QueryCall("addWhere", queryAddWhere(qb, f, uuid), NoHeld)
Return == \E arg \in QueryReturnArgs :
  QueryCall("return", queryReturn(qb, arg), Held("RETURN", arg))
AddReturn == \E st \in {StB} :
  QueryCall("addReturn", queryAddReturn(qb, st, ""), NoHeld)
Finish == QueryCall("finish", queryFinish(qb), NoHeld)
OrderBy == \E arg \in QueryOrderByArgs :
  QueryCallOf("orderBy", arg.kind, queryOrderBy(qb, arg), Held("ORDER BY", arg),
              <<>>)
AddOrderBy == \E st \in {StB} :
  QueryCall("addOrderBy", queryAddOrderBy(qb, st, "ASC"), NoHeld)
Skip == \E n \in QueryNumbers : QueryCall("skip", querySkip(qb, n), NoHeld)
Limit == \E n \in QueryNumbers : QueryCall("limit", queryLimit(qb, n), NoHeld)
Offset == \E n \in QueryNumbers : QueryCall("offset", queryOffset(qb, n), NoHeld)

QueryFinalize ==
  /\ qbCalls < MaxQueryCalls
  /\ \E ctx \in {QueryToParameterizedQuery(qb)} :
       /\ qb' = ctx.qb
       /\ qbResult' = [status |-> IF ctx.ok THEN "ok" ELSE "throw",
                       query |-> IF ctx.ok THEN ctx.query ELSE <<>>,
                       parameters |-> IF ctx.ok THEN ctx.parameters ELSE EmptyBag,
                       aliasSet |-> IF ctx.ok THEN ctx.aliasSet ELSE {},
                       thrownAt |-> ctx.thrownAt]
       /\ qbThrew' = IF ctx.ok THEN "none" ELSE "toParameterizedQuery"
  /\ qbCalls' = qbCalls + 1
  /\ qbSecond' = NoSecondCall
  /\ UNCHANGED <<qbHeld, qbReordered, qbSelect, uuid, pathVars, wb, wbResult,
                 wbCalls, wbLast, wbScope, restVars>>

QueryNext ==
  \/ Match \/ AddMatch \/ OptionalMatch \/ AddOptionalMatch
  \/ Create \/ AddCreate \/ Merge \/ AddMerge
  \/ Where \/ AddWhere \/ Return \/ AddReturn \/ Finish
  \/ OrderBy \/ AddOrderBy \/ Skip \/ Limit \/ Offset \/ QueryFinalize

-----------------------------------------------------------------------------
(* Claims about PathPatternBuilder *)

\* C2 (as stated): no relationship element of the chain is directly linked to
\* another relationship element, and toRelationship and fromRelationship both
\* throw when the current last element is a relationship.
C2_NoRelationshipNextToRelationship ==
  /\ \A i \in 1..Len(pb.els) :
       (pb.els[i].type = "relationship" /\ pb.els[i].next # 0)
         => pb.els[pb.els[i].next].type # "relationship"
  /\ (pbLast.op \in {"toRelationship", "fromRelationship"} /\ pbLast.lastWasRel)
       => ~pbLast.ok

\* C3 (as stated): a second toParameterizedQuery, with no builder call since the
\* first one returned, returns the same pattern text and alias set.
C3_SecondFinalizeSameResult ==
  pbPrev.status = "ok" => pbResult = pbPrev

\* the elements the caller added, in call order
CallerElements == SelectSeq(pb.els, LAMBDA e : ~e.ghost)

\* C4 (as stated): every pattern text returned by finalize begins and ends with
\* a node fragment, and an anonymous node is inserted at an end exactly when
\* the caller's chain has a relationship with no neighbour on that end.
C4_NodeAtBothEnds ==
  (pbResult.status = "ok" /\ pbFinals = 1 /\ ~pbSince /\ ~pb.sp.set) =>
    /\ pbResult.query[1] = "("
    /\ pbResult.query[Len(pbResult.query)] = ")"
    /\ pb.els[pb.start].ghost
         <=> CallerElements[1].type = "relationship"
    /\ (pb.els[pb.last].ghost /\ pb.last # pb.start)
         <=> CallerElements[Len(CallerElements)].type = "relationship"

StartCalls == {"setNode", "setRelationship"}
ChainCalls == {"toNode", "fromNode", "addNode", "toRelationship", "fromRelationship"}

\* C12: once a setNode or setRelationship has returned on a builder, every
\* later setNode and every later setRelationship on that builder throws.
C12_SecondStartThrows ==
  (pbLast.op \in StartCalls /\ pbLast.setBefore) => ~pbLast.ok

\* C12 witness: a setRelationship that threw on a builder started with setNode
\* and extended since, and left the chain as it was.
C12_Witness ==
  /\ pbLast.op = "setRelationship" /\ pbLast.setBefore /\ ~pbLast.ok
  /\ Len(CallerElements) >= 2
  /\ CallerElements[1].type = "node"

\* C13: toNode, fromNode, addNode, toRelationship and fromRelationship throw
\* on a builder on which no setNode or setRelationship has returned.
C13_ChainingNeedsStart ==
  (pbLast.op \in ChainCalls /\ ~pbLast.setBefore) => ~pbLast.ok

\* C13 witness: a fromRelationship that threw on a builder that never got a
\* start element, as a second or later call on it.
C13_Witness ==
  /\ pbLast.op = "fromRelationship" /\ ~pbLast.setBefore /\ ~pbLast.ok
  /\ pbCalls >= 2
  /\ pb.els = <<>>

\* the last n tokens of a text
LastTokens(query, n) ==
  IF Len(query) < n THEN <<>> ELSE SubSeq(query, Len(query) - n + 1, Len(query))

\* a finalize step on a chain that ends in a relationship with a predecessor
FinalizeOnTrailingRelationship ==
  /\ pbFinals' = pbFinals + 1
  /\ pb.last # 0
  /\ pb.els[pb.last].type = "relationship"
  /\ pb.els[pb.last].previous # 0

\* what C14 says of such a step: one anonymous node is added, after the
\* relationship and nowhere else, attached as toNode when the relationship came
\* by toRelationship and as fromNode when it came by fromRelationship, and a
\* returned text ends with the relationship, its connector and `()`
TrailingNodeAppended ==
  LET rel == pb.last
      n == Len(pb.els) + 1
      incoming == pb.els[pb.els[rel].previous].nextType
      attach == IF incoming = "toRelationship" THEN "toNode" ELSE "fromNode"
      connector == IF attach = "toNode" THEN "->" ELSE "-"
  IN /\ Len(pb'.els) = n
     /\ pb'.last = n /\ pb'.start = pb.start
     /\ pb'.els[n].type = "node" /\ pb'.els[n].alias = ""
     /\ pb'.els[n].previous = rel /\ pb'.els[n].next = 0
     /\ pb'.els[rel] = [pb.els[rel] EXCEPT !.next = n, !.nextType = attach]
     /\ \A i \in (1..Len(pb.els)) \ {rel} : pb'.els[i] = pb.els[i]
     /\ pbResult'.status = "ok" =>
          LastTokens(pbResult'.query, 7)
            = <<"[", pb.els[rel].alias, "]", connector, "(", "", ")">>

\* C14 (as stated): when the chain ends in a relationship that has a
\* predecessor, finalize appends exactly one anonymous node, on the trailing
\* end, as toNode after a toRelationship and as fromNode after a
\* fromRelationship, and the text ends in `-[r]->()` or `<-[r]-()`.
C14_TrailingNodeFollowsDirection ==
  [][FinalizeOnTrailingRelationship => TrailingNodeAppended]_vars

\* the elements of a chain in the order of its links, from element `cur`
RECURSIVE ChainFrom(_, _, _)
ChainFrom(els, cur, fuel) ==
  IF cur = 0 \/ fuel = 0 THEN <<>>
  ELSE <<els[cur]>> \o ChainFrom(els, els[cur].next, fuel - 1)

Chain(b) == ChainFrom(b.els, b.start, Len(b.els))

\* the connector table of the documentation: predecessor kind, nextType
ConnectorTable ==
  [p \in {<<"node", "toNode">>, <<"node", "fromNode">>, <<"node", "toRelationship">>,
          <<"node", "fromRelationship">>, <<"node", "unDirectedNode">>,
          <<"relationship", "toNode">>, <<"relationship", "fromNode">>} |->
     CASE p = <<"node", "toNode">> -> "-->"
       [] p = <<"node", "fromNode">> -> "<--"
       [] p = <<"node", "toRelationship">> -> "-"
       [] p = <<"node", "fromRelationship">> -> "<-"
       [] p = <<"node", "unDirectedNode">> -> "--"
       [] p = <<"relationship", "toNode">> -> "->"
       [] p = <<"relationship", "fromNode">> -> "-"]

\* every link of the chain is a pair the table lists
LinksInTable(chain) ==
  \A i \in 1..Len(chain) :
    chain[i].next # 0 => <<chain[i].type, chain[i].nextType>> \in DOMAIN ConnectorTable

\* the text the table prescribes for a chain: each element, followed by the
\* connector of its kind and nextType when an element follows it
RECURSIVE TableText(_)
TableText(chain) ==
  IF chain = <<>> THEN <<>>
  ELSE LET e == Head(chain)
       IN (IF e.type = "node" THEN <<"(", e.alias, ")">> ELSE <<"[", e.alias, "]">>)
          \o (IF e.next = 0 THEN <<>>
              ELSE <<ConnectorTable[<<e.type, e.nextType>>]>>)
          \o TableText(Tail(chain))

\* a returned text without its shortest-path prefix
PatternText(b, query) ==
  IF b.sp.set THEN SubSeq(query, Len(ShortestPathQuery(b.sp)) + 1, Len(query))
  ELSE query

\* C15 (as stated): in a text finalize returned, every element of the chain is
\* followed by the connector the table gives for its kind and nextType
\* (node/toNode `-->`, node/fromNode `<--`, node/toRelationship `-`,
\* node/fromRelationship `<-`, node/unDirectedNode `--`, relationship/toNode
\* `->`, relationship/fromNode `-`), and the last element by nothing.
C15_ConnectorsFollowTable ==
  (pbResult.status = "ok" /\ ~pbSince /\ LinksInTable(Chain(pb))) =>
    PatternText(pb, pbResult.query) = TableText(Chain(pb))

\* the non-empty aliases given to the elements of a builder
GivenAliases(b) == {b.els[i].alias : i \in 1..Len(b.els)} \ {""}

\* C16 (as stated): for a pattern built with setNode, setRelationship, toNode,
\* fromNode, addNode, toRelationship and fromRelationship only, the alias set
\* finalize returns is exactly the set of non-empty aliases given to its
\* elements.
C16_AliasSetIsGivenAliases ==
  (pbResult.status = "ok" /\ ~pbSince /\ ~pb.sp.set) =>
    pbResult.aliases = GivenAliases(pb)

\* two different elements of the builder were given the same non-empty alias
DuplicateAlias(b) ==
  \E i, j \in 1..Len(b.els) :
    i # j /\ b.els[i].alias # "" /\ b.els[i].alias = b.els[j].alias

\* C17 (as stated): finalizing a pattern in which two different elements, two
\* nodes included, were given the same non-empty alias throws.
C17_DuplicateAliasThrows ==
  (pbResult.status # "none" /\ ~pbSince /\ DuplicateAlias(pb)) =>
    pbResult.status = "throw"

\* C18: finalizing a pattern none of whose elements was given a non-empty
\* alias throws.
C18_NoAliasThrows ==
  (pbResult.status # "none" /\ ~pbSince /\ GivenAliases(pb) = {}) =>
    pbResult.status = "throw"

\* C18 witness: the first finalize of a chain of two or more elements without
\* any alias, with a shortest-path alias set, threw.
C18_Witness ==
  /\ pbResult.status = "throw" /\ ~pbSince /\ pbFinals = 1
  /\ Len(pb.els) >= 2
  /\ GivenAliases(pb) = {}
  /\ pb.sp.set /\ pb.sp.alias = "p"

\* C19 (as stated): when a shortest-path annotation is set and its alias is
\* the alias of a node or relationship of the pattern, finalize throws.
C19_ShortestPathAliasCollisionThrows ==
  (pbResult.status # "none" /\ ~pbSince /\ pb.sp.set
     /\ pb.sp.alias \in GivenAliases(pb)) =>
    pbResult.status = "throw"

\* a text that starts with `prefix` and goes on with an element of the pattern
StartsWithPrefix(query, prefix) ==
  /\ Len(query) > Len(prefix)
  /\ SubSeq(query, 1, Len(prefix)) = prefix
  /\ query[Len(prefix) + 1] \in {"(", "["}

\* the prefix with every optional part on its own
IndependentPrefix(sp) ==
  <<sp.alias, "=">>
  \o (IF sp.isAll THEN <<"ALL">> ELSE <<>>)
  \o <<"SHORTEST">>
  \o (IF sp.length > 0 THEN <<ToString(sp.length)>> ELSE <<>>)
  \o (IF sp.isGroup THEN <<"GROUPS">> ELSE <<>>)

\* the prefix with the length left out of an ALL SHORTEST
LengthUnlessAllPrefix(sp) ==
  <<sp.alias, "=">>
  \o (IF sp.isAll THEN <<"ALL">> ELSE <<>>)
  \o <<"SHORTEST">>
  \o (IF sp.length > 0 /\ ~sp.isAll THEN <<ToString(sp.length)>> ELSE <<>>)
  \o (IF sp.isGroup THEN <<"GROUPS">> ELSE <<>>)

\* C20 (as stated): with a shortest-path annotation the returned text starts
\* with `<alias> = `, `ALL ` iff isAll is set, `SHORTEST`, ` <length>` iff a
\* length was given, ` GROUPS` iff isGroup is set, each part whatever the
\* others are, and the pattern follows.
C20_PrefixPartsIndependent ==
  (pbResult.status = "ok" /\ ~pbSince /\ pb.sp.set) =>
    StartsWithPrefix(pbResult.query, IndependentPrefix(pb.sp))

\* C20 (amended): as above, but the length appears iff a length was given and
\* isAll is not set.
C20_PrefixLengthUnlessAll ==
  (pbResult.status = "ok" /\ ~pbSince /\ pb.sp.set) =>
    StartsWithPrefix(pbResult.query, LengthUnlessAllPrefix(pb.sp))

\* C20 witness: a text returned for an annotation with isAll, a length and
\* isGroup all given: `p = ALL SHORTEST GROUPS (`.
C20_Witness ==
  /\ pbResult.status = "ok" /\ ~pbSince
  /\ pb.sp.set /\ pb.sp.isAll /\ pb.sp.isGroup /\ pb.sp.length = 2
  /\ SubSeq(pbResult.query, 1, 6) = <<"p", "=", "ALL", "SHORTEST", "GROUPS", "(">>

-----------------------------------------------------------------------------
(* Claims about WhereClauseBuilder *)

IsOperand(node) == node.type \in {"statement", "bracket"}
IsConnective(node) == node.type \in {"and", "or"}

\* a node list is operand, connective, operand, ..., operand, at every level
RECURSIVE Alternates(_)
Alternates(nodes) ==
  \/ nodes = <<>>
  \/ /\ Len(nodes) % 2 = 1
     /\ \A i \in 1..Len(nodes) :
          IF i % 2 = 1
          THEN IsOperand(nodes[i]) /\ Alternates(nodes[i].subNodes)
          ELSE IsConnective(nodes[i])

\* C5 (as stated): after add/and/or calls that did not throw, at every nesting
\* level the node list starts with a statement or bracket and alternates
\* strictly with connectives, so in the flattened text every AND/OR stands
\* between two operands.
C5_OperandsAlternateWithConnectives ==
  /\ Alternates(wb.nodes)
  /\ wbResult.status = "ok" =>
       \A i \in 1..Len(wbResult.query) :
         wbResult.query[i].t \in {"AND", "OR"} =>
           /\ i > 1 /\ wbResult.query[i - 1].t \in {"statement", ")"}
           /\ i < Len(wbResult.query)
           /\ wbResult.query[i + 1].t \in {"statement", "("}

\* the statement nodes of a node list, brackets included, left to right
RECURSIVE StatementNodes(_)
StatementNodes(nodes) ==
  IF nodes = <<>> THEN <<>>
  ELSE (IF Head(nodes).type = "statement" THEN <<Head(nodes)>>
        ELSE StatementNodes(Head(nodes).subNodes))
       \o StatementNodes(Tail(nodes))

\* every placeholder of the statement has a usable entry in the property map
ParametersComplete(arg) ==
  /\ arg.statement.phs # <<>>
  /\ \A i \in 1..Len(arg.statement.phs) :
       /\ arg.statement.phs[i].name \in DOMAIN arg.parameters.map
       /\ ~Falsy(arg.parameters.map[arg.statement.phs[i].name])

\* every alias a statement refers to, as property access or as a bare name
ReferencedAliases(statement) ==
  {statement.refs[i].alias : i \in 1..Len(statement.refs)}

\* C6 (as stated): add/and/or never reject a statement for its alias (a call
\* throws only when add is repeated or the property map is incomplete), and
\* toParameterizedQuery throws when a statement, nested ones included, refers
\* to an alias outside the list last given to setAliasList.
C6_AliasValidatedAtFinalize ==
  /\ (wbLast.op # "none" /\ ~wbLast.ok) =>
       \/ wbLast.op = "add" /\ ~wbLast.wasEmpty
       \/ /\ wbLast.arg.kind = "statement"
          /\ wbLast.arg.parameters.given
          /\ ~ParametersComplete(wbLast.arg)
  /\ wbResult.status # "none" =>
       LET sts == StatementNodes(wb.nodes)
       IN (\E i \in 1..Len(sts) :
             ~(ReferencedAliases(sts[i].statement) \subseteq wbScope))
            => wbResult.status = "throw"

RECURSIVE SumLen(_)
SumLen(sts) ==
  IF sts = <<>> THEN 0 ELSE Len(Head(sts).statement.phs) + SumLen(Tail(sts))

C8_PlaceholdersResolvable ==
  (wbLast.op # "none" /\ wbLast.ok /\ wbLast.arg.kind = "statement"
     /\ wbLast.arg.parameters.given) =>
    LET phs == wb.nodes[Len(wb.nodes)].statement.phs
    IN \A i \in 1..Len(phs) :
         /\ phs[i].rnd # 0
         /\ phs[i] \in DOMAIN wb.parameters
         /\ wb.parameters[phs[i]] = wbLast.arg.parameters.map[phs[i].name]

\* C21: once an add call has returned on a builder, every later add call on
\* that builder throws.
C21_SecondAddThrows ==
  (wbLast.op = "add" /\ wbLast.addedBefore) => ~wbLast.ok

\* C21 witness: an add of a plain statement, which a fresh builder accepts,
\* threw on a builder that holds the one node of an earlier add.
C21_Witness ==
  /\ wbLast.op = "add" /\ wbLast.addedBefore /\ ~wbLast.ok
  /\ wbLast.arg = StatementArg(StA, NoParameters)
  /\ Len(wb.nodes) = 1

\* a placeholder of the statement has no entry in the property map
SomeKeyMissing(arg) ==
  \E i \in 1..Len(arg.statement.phs) :
    arg.statement.phs[i].name \notin DOMAIN arg.parameters.map

\* C22 (as stated): a statement given to add/and/or with a property map is
\* rejected at once when one of its $key placeholders has no entry in the map,
\* and accepted when each of them has an entry, whatever its value (add being
\* made on a builder without nodes).
C22_MapEntriesDecideAcceptance ==
  (wbLast.op # "none" /\ wbLast.arg.kind = "statement"
     /\ wbLast.arg.parameters.given) =>
    /\ SomeKeyMissing(wbLast.arg) => ~wbLast.ok
    /\ (~SomeKeyMissing(wbLast.arg) /\ (wbLast.op = "add" => wbLast.wasEmpty))
         => wbLast.ok

-----------------------------------------------------------------------------
(* Claims about QueryBuilder *)

\* the non-empty aliases the caller gave to the elements of a pattern
PatternAliases(pattern) ==
  {pattern.els[i].alias : i \in 1..Len(pattern.els)} \ {""}

\* the aliases of one selective clause and of all of them
ClauseAliases(q, type) ==
  UNION {PatternAliases(q.select[type].patterns[i]) :
           i \in 1..Len(q.select[type].patterns)}
SelectiveAliases(q) ==
  UNION {ClauseAliases(q, t) : t \in {u \in SelectiveTypes : q.select[u].present}}

\* the statements of a line of the assembled text
LineStatements(line) ==
  {line.tokens[i].statement : i \in {j \in 1..Len(line.tokens) :
                                       line.tokens[j].t = "statement"}}
  \cup {line.items[i].statement : i \in 1..Len(line.items)}

\* C1 (as stated): in a query toParameterizedQuery returned, every alias the
\* WHERE, ORDER BY and RETURN lines refer to, bare names included, is an alias
\* of the query's MATCH, OPTIONAL MATCH, MERGE or CREATE clauses.
C1_ReferencedAliasesAreDeclared ==
  qbResult.status = "ok" =>
    \A i \in 1..Len(qbResult.query) :
      qbResult.query[i].clause \in {"WHERE", "ORDER BY", "RETURN"} =>
        \A st \in LineStatements(qbResult.query[i]) :
          ReferencedAliases(st) \subseteq SelectiveAliases(qb)

\* what the validation of each dependent clause accepts in a scope
WhereAccepts(w, scope) ==
  LET sts == StatementNodes(w.nodes)
  IN \A i \in 1..Len(sts) :
       /\ Cardinality(extractAliases(sts[i].statement)) = 1
       /\ extractAliases(sts[i].statement) \subseteq scope
ItemsAccepted(builder, scope) ==
  \A i \in 1..Len(builder.statements) :
    extractAliases(builder.statements[i].statement) \subseteq scope

\* C9: when toParameterizedQuery finalizes WHERE, ORDER BY and RETURN, each is
\* validated against exactly the union of the aliases of the selective clauses
\* in the query: afterwards the builder holds that union in place of what it
\* held, a returned query has every validated alias in the union, and a throw
\* of a dependent clause comes from a statement the union does not admit.
C9_ScopeIsUnionOfSelectiveClauses ==
  LET scope == SelectiveAliases(qb)
  IN /\ qbResult.status = "ok" =>
          /\ qb.where.present =>
               qb.where.builder.aliasSet = scope /\ WhereAccepts(qb.where.builder, scope)
          /\ qb.orderBy.present =>
               qb.orderBy.builder.aliasSet = scope /\ ItemsAccepted(qb.orderBy.builder, scope)
          /\ qb.return.present =>
               qb.return.builder.aliasSet = scope /\ ItemsAccepted(qb.return.builder, scope)
     /\ qbResult.thrownAt = "WHERE" =>
          qb.where.builder.aliasSet = scope /\ ~WhereAccepts(qb.where.builder, scope)
     /\ qbResult.thrownAt = "ORDER BY" =>
          qb.orderBy.builder.aliasSet = scope /\ ~ItemsAccepted(qb.orderBy.builder, scope)
     /\ qbResult.thrownAt = "RETURN" =>
          qb.return.builder.aliasSet = scope /\ ~ItemsAccepted(qb.return.builder, scope)

\* C9 witness: a query returned with two selective clauses of different
\* aliases and an ORDER BY builder that was handed over holding another list
\* and now holds the union.
C9_Witness ==
  /\ qbResult.status = "ok"
  /\ "ORDER BY" \in qbHeld
  /\ qb.orderBy.builder.aliasSet = {"a", "b"}
  /\ \E t, u \in SelectiveTypes :
       /\ qb.select[t].present /\ qb.select[u].present
       /\ ClauseAliases(qb, t) = {"a"} /\ ClauseAliases(qb, u) = {"b"}

\* the lines of a text that are not empty
TextLines(query) == SelectSeq(query, LAMBDA line : line.clause # "")

PathTextOf(script) ==
  PathToParameterizedQuery(RunPathFunction(NewPathPatternBuilder, script).pb).query
PathTextsOf(scripts) == [i \in 1..Len(scripts) |-> PathTextOf(scripts[i])]

\* the lines of a clause in the assembled text
LinesOf(query, type) ==
  {i \in 1..Len(query) : query[i].clause = type}

\* the assembled text has one line for the clause and its patterns are those
\* the builder functions build, in that order
ClauseShows(type, scripts) ==
  /\ Cardinality(LinesOf(qbResult.query, type)) = 1
  /\ \A i \in LinesOf(qbResult.query, type) :
       qbResult.query[i].paths = PathTextsOf(scripts)

\* C23: match, optionalMatch, create or merge called when the clause's slot is
\* filled replaces the slot: a query assembled afterwards (with no add call
\* for the clause in between) has for that clause only the patterns of that
\* most recent call.
C23_SelectCallReplacesSlot ==
  qbResult.status = "ok" =>
    \A t \in SelectiveTypes :
      (qbSelect[t].replaced /\ ~qbSelect[t].appended) =>
        ClauseShows(t, qbSelect[t].scripts)

\* C23 witness: match was called on a filled MATCH slot with the pattern (b)
\* and the assembled query has the MATCH line with (b) alone.
C23_Witness ==
  /\ qbResult.status = "ok"
  /\ qbSelect["MATCH"].replaced /\ ~qbSelect["MATCH"].appended
  /\ qbSelect["MATCH"].scripts = <<PatB>>
  /\ ClauseShows("MATCH", <<PatB>>)

\* C24: addMatch, addOptionalMatch, addCreate and addMerge append their pattern
\* after the patterns the clause holds, keeping the earlier ones in call order,
\* and on an empty slot leave the clause as the non-add method does: with the
\* one pattern given.
C24_AddAppendsInCallOrder ==
  qbResult.status = "ok" =>
    \A t \in SelectiveTypes :
      (qbSelect[t].appended \/ qbSelect[t].seeded) =>
        ClauseShows(t, qbSelect[t].scripts)

\* C24 witness: addMatch on a MATCH slot holding (a) added (a)-[r]->(b), and
\* the assembled query has both patterns in that order.
C24_Witness ==
  /\ qbResult.status = "ok"
  /\ qbSelect["MATCH"].appended
  /\ qbSelect["MATCH"].scripts = <<PatA, PatARB>>
  /\ ClauseShows("MATCH", <<PatA, PatARB>>)
  /\ Len(PathTextOf(PatARB)) > Len(PathTextOf(PatA))

\* a clause started by an add method shows the one pattern given
C24_WitnessSeeded ==
  /\ qbResult.status = "ok"
  /\ \E t \in SelectiveTypes :
       qbSelect[t].seeded /\ ~qbSelect[t].appended /\ ClauseShows(t, <<PatARB>>)

\* two patterns of the clause were given the same alias
SharedAlias(q, type) ==
  \E i, j \in 1..Len(q.select[type].patterns) :
    /\ i < j
    /\ PatternAliases(q.select[type].patterns[i])
         \cap PatternAliases(q.select[type].patterns[j]) # {}

C28_SecondWhereOrOrderByThrows ==
  qbSecond.name # "none" => qbThrew = qbSecond.name

\* C11: when return(...) and finish() were both called on the builder, in
\* either order, toParameterizedQuery (and toRawQuery, which calls it first)
\* throws and produces no query.
C11_ReturnWithFinishThrows ==
  (qb.return.present /\ qb.finish /\ qbResult.status # "none") =>
    qbResult.status = "throw" /\ qbResult.query = <<>>

\* C11 witness: a builder with a MATCH, a RETURN the scope admits and a FINISH,
\* whose finalizing threw at the RETURN/FINISH check and nowhere before.
C11_Witness ==
  /\ qb.return.present /\ qb.finish /\ qb.select["MATCH"].present
  /\ ItemsAccepted(qb.return.builder, SelectiveAliases(qb))
  /\ qbResult.status = "throw"
  /\ qbResult.thrownAt = "FINISH"

-----------------------------------------------------------------------------

(* ReturnClauseBuilder and OrderByClauseBuilder used on their own *)

MaxClauseCalls == 4

\* what the caller can pass
ClauseAliasLists == {{}, {"a"}, {"a", "m"}}
ClauseStatements == {StA, StM, StMBare}
ReturnAliases == {"", "x"}
OrderByDirections == {"ASC", "DESC", "SOME"}

\* the alias list a builder was last given, by its constructor or setAliasList
NoScope == [given |-> FALSE, aliases |-> {}]
GivenScope(aliases) == [given |-> TRUE, aliases |-> aliases]

NoClauseCall ==
  [builder |-> "none", op |-> "none", ok |-> TRUE, statement |-> Star,
   tag |-> "", line |-> BlankLine]
ClauseCallOf(builder, op, ok, statement, tag, line) ==
  [builder |-> builder, op |-> op, ok |-> ok, statement |-> statement,
   tag |-> tag, line |-> line]

ClauseInit ==
  /\ cb = [return |-> NewReturnClauseBuilder({}),
           orderBy |-> NewOrderByClauseBuilder({})]
  /\ cbLast = NoClauseCall
  /\ cbScope = [return |-> NoScope, orderBy |-> NoScope]
  /\ cbCalls = 0

ClauseCall(which, builder, scope, last) ==
  /\ cbCalls < MaxClauseCalls
  /\ cbCalls' = cbCalls + 1
  /\ cb' = [cb EXCEPT ![which] = builder]
  /\ cbScope' = [cbScope EXCEPT ![which] = scope]
  /\ cbLast' = last
  /\ UNCHANGED <<pathVars, whereVars, queryVars, setVars, poolVars>>

\* new ReturnClauseBuilder({ aliases })
ReturnNew == \E aliases \in {{"a"}} :
  ClauseCall("return", NewReturnClauseBuilder(aliases), GivenScope(aliases),
             ClauseCallOf("return", "new", TRUE, Star, "", BlankLine))

\* ReturnClauseBuilder.setAliasList(aliases)
ReturnSetAliasList == \E aliases \in ClauseAliasLists :
  ClauseCall("return", returnSetAliasList(cb.return, aliases), GivenScope(aliases),
             ClauseCallOf("return", "setAliasList", TRUE, Star, "", BlankLine))

\* ReturnClauseBuilder.add(statement, alias)
ReturnAdd == \E statement \in ClauseStatements \cup {Star}, alias \in ReturnAliases :
  ClauseCall("return", returnAdd(cb.return, statement, alias), cbScope.return,
             ClauseCallOf("return", "add", TRUE, statement, alias, BlankLine))

\* ReturnClauseBuilder.toParameterizedQuery()
ReturnFinalize == \E pq \in {ReturnToParameterizedQuery(cb.return)} :
  ClauseCall("return", pq.builder, cbScope.return,
             ClauseCallOf("return", "finalize", pq.ok, Star, "", pq.line))

\* new OrderByClauseBuilder({ aliases })
OrderByNew == \E aliases \in {{"a"}} :
  ClauseCall("orderBy", NewOrderByClauseBuilder(aliases), GivenScope(aliases),
             ClauseCallOf("orderBy", "new", TRUE, Star, "", BlankLine))

\* OrderByClauseBuilder.setAliasList(aliases)
OrderBySetAliasList == \E aliases \in ClauseAliasLists :
  ClauseCall("orderBy", orderBySetAliasList(cb.orderBy, aliases),
             GivenScope(aliases),
             ClauseCallOf("orderBy", "setAliasList", TRUE, Star, "", BlankLine))

\* OrderByClauseBuilder.add(statement, direction)
OrderByAdd == \E statement \in ClauseStatements, direction \in OrderByDirections :
  \E res \in {orderByAdd(cb.orderBy, statement, direction)} :
    ClauseCall("orderBy", res.builder, cbScope.orderBy,
               ClauseCallOf("orderBy", "add", res.ok, statement, direction,
                            BlankLine))

\* OrderByClauseBuilder.toParameterizedQuery()
OrderByFinalize == \E pq \in {OrderByToParameterizedQuery(cb.orderBy)} :
  ClauseCall("orderBy", pq.builder, cbScope.orderBy,
             ClauseCallOf("orderBy", "finalize", pq.ok, Star, "", pq.line))

ClauseNext ==
  \/ ReturnNew \/ ReturnSetAliasList \/ ReturnAdd \/ ReturnFinalize
  \/ OrderByNew \/ OrderBySetAliasList \/ OrderByAdd \/ OrderByFinalize

-----------------------------------------------------------------------------
(* Claims about ReturnClauseBuilder and OrderByClauseBuilder *)

\* the statements a builder holds that refer to an alias outside a list
Unadmitted(builder, aliases) ==
  {i \in 1..Len(builder.statements) :
     ~(ReferencedAliases(builder.statements[i].statement) \subseteq aliases)}

\* C26 (as stated): add of ReturnClauseBuilder and of OrderByClauseBuilder
\* never throws for an alias (only for a direction that is neither ASC nor
\* DESC); toParameterizedQuery throws exactly when a statement refers to an
\* alias outside the list last given, and with no list ever given when any
\* statement refers to an alias at all.
C26_AliasValidatedOnlyAtFinalize ==
  /\ cbLast.op = "add" =>
       (cbLast.ok <=> ~(cbLast.builder = "orderBy" /\ cbLast.tag \notin {"ASC", "DESC"}))
  /\ cbLast.op = "finalize" =>
       /\ cbLast.ok <=>
            Unadmitted(cb[cbLast.builder], cbScope[cbLast.builder].aliases) = {}
       /\ (~cbScope[cbLast.builder].given
             /\ \E i \in 1..Len(cb[cbLast.builder].statements) :
                  ReferencedAliases(cb[cbLast.builder].statements[i].statement) # {})
            => ~cbLast.ok

-----------------------------------------------------------------------------

(* SetClauseBuilder *)

MaxSetCalls == 4

NewSetClauseBuilder ==
  [aliasSet |-> {}, properties |-> MapNone, statementList |-> <<>>]

\* the aliases extractAliases returns, in the order it found them
RECURSIVE AliasListFrom(_, _)
AliasListFrom(refs, seen) ==
  IF refs = <<>> THEN <<>>
  ELSE IF Head(refs).form = "bare" \/ Head(refs).alias \in seen
  THEN AliasListFrom(Tail(refs), seen)
  ELSE <<Head(refs).alias>> \o AliasListFrom(Tail(refs), seen \cup {Head(refs).alias})
AliasList(statement) == AliasListFrom(statement.refs, {})

\* SetClauseBuilder._mergeAliasSet: the aliases before one that is already
\* in the set stay added
RECURSIVE setMergeAliasSet(_, _)
setMergeAliasSet(targetSet, sourceList) ==
  IF sourceList = <<>> THEN [ok |-> TRUE, set |-> targetSet]
  ELSE IF Head(sourceList) \in targetSet THEN [ok |-> FALSE, set |-> targetSet]
  ELSE setMergeAliasSet(targetSet \cup {Head(sourceList)}, Tail(sourceList))

\* mergeProperties(this._properties, properties) with properties possibly
\* undefined
mergeGiven(properties, parameters) ==
  IF parameters.given THEN mergeProperties(properties, parameters.map)
  ELSE properties

\* SetClauseBuilder.set(statement, properties)
setClauseSet(s, statement, parameters) ==
  IF Len(s.statementList) > 0 THEN [ok |-> FALSE, s |-> s]
  ELSE LET merged == setMergeAliasSet(s.aliasSet, AliasList(statement))
       IN [ok |-> merged.ok,
           s |-> [aliasSet |-> merged.set,
                  properties |-> IF parameters.given THEN parameters.map
                                 ELSE MapNone,
                  statementList |-> <<statement>>]]

\* SetClauseBuilder.addSet(statement, properties)
setClauseAddSet(s, statement, parameters) ==
  LET merged == setMergeAliasSet(s.aliasSet, AliasList(statement))
  IN IF ~merged.ok THEN [ok |-> FALSE, s |-> [s EXCEPT !.aliasSet = merged.set]]
     ELSE [ok |-> TRUE,
           s |-> [aliasSet |-> merged.set,
                  properties |-> mergeGiven(s.properties, parameters),
                  statementList |-> Append(s.statementList, statement)]]

\* SetClauseBuilder.setProperties(properties)
setClauseSetProperties(s, properties) ==
  [ok |-> TRUE, s |-> [s EXCEPT !.properties = mergeProperties(@, properties)]]

\* SetClauseBuilder.toParameterizedQuery()
SetToParameterizedQuery(s) ==
  IF Len(s.statementList) = 0 THEN [query |-> <<>>, parameters |-> MapNone]
  ELSE [query |-> s.statementList, parameters |-> s.properties]

\* what the caller can pass
StBj == Statement(<<Ref("b", "dot")>>, <<"j">>)
MapJ(v) == [n \in {"j"} |-> v]
SetStatements == {StAk, StBj, StA}
SetParameters ==
  {NoParameters, Parameters(MapK("v1")), Parameters(MapK("v2")),
   Parameters(MapJ("v2"))}
SetPropertyMaps == {MapNone, MapK("v1"), MapJ("v2"), MapKJ("v1", "v2")}

NoSetCall == [op |-> "none", ok |-> TRUE, properties |-> MapNone]
NoSetResult == [status |-> "none", query |-> <<>>, parameters |-> MapNone]

SetInit ==
  /\ sb = NewSetClauseBuilder
  /\ sbLast = NoSetCall
  /\ sbResult = NoSetResult
  /\ sbCalls = 0

SetCall(op, res, properties) ==
  /\ sbCalls < MaxSetCalls
  /\ sbCalls' = sbCalls + 1
  /\ sb' = res.s
  /\ sbLast' = [op |-> op, ok |-> res.ok, properties |-> properties]
  /\ sbResult' = NoSetResult
  /\ UNCHANGED <<pathVars, whereVars, queryVars, clauseVars, poolVars>>

SetClauseSet == \E statement \in SetStatements, parameters \in SetParameters :
  SetCall("set", setClauseSet(sb, statement, parameters), parameters.map)

SetClauseAddSet == \E statement \in SetStatements, parameters \in SetParameters :
  SetCall("addSet", setClauseAddSet(sb, statement, parameters), parameters.map)

SetClauseSetProperties == \E properties \in SetPropertyMaps :
  SetCall("setProperties", setClauseSetProperties(sb, properties), properties)

\* toParameterizedQuery() reads the builder and leaves it as it is
SetClauseFinalize ==
  /\ sbResult.status = "none"
  /\ sbResult' = [status |-> "ok",
                  query |-> SetToParameterizedQuery(sb).query,
                  parameters |-> SetToParameterizedQuery(sb).parameters]
  /\ UNCHANGED <<sb, sbLast, sbCalls, pathVars, whereVars, queryVars, clauseVars,
                 poolVars>>

SetNext ==
  SetClauseSet \/ SetClauseAddSet \/ SetClauseSetProperties \/ SetClauseFinalize

-----------------------------------------------------------------------------
(* Claims about SetClauseBuilder *)

\* C27 (as stated): setProperties replaces the whole property map of the
\* clause: when toParameterizedQuery follows setProperties(P) on a clause with
\* a statement, the parameters it returns are exactly P, with nothing left of
\* the properties given earlier to set or addSet.
C27_SetPropertiesReplacesMap ==
  (sbResult.status = "ok" /\ sbLast.op = "setProperties"
     /\ Len(sb.statementList) > 0)
    => sbResult.parameters = sbLast.properties

-----------------------------------------------------------------------------

(* SessionPoolManager (session-pool/manager.ts) *)

\* numberOfSessions of the constructor, and how many times getSession is
\* followed; the pool is built with idleTimeoutMs set (without it no timer is
\* ever started, which is the behaviour in which no timer fires)
NumberOfSessions == 2
MaxCheckouts == 2

\* idleTimeoutMs of the constructor, in ticks of the clock
IdleTimeoutMs == 2

\* the ids _initializeSessions gives to the sessions it creates
SessionIds == 1..NumberOfSessions

\* what one getSession call leaves behind: the id its closures hold, whether
\* its OneshotTimer has a timeout pending and the time left until that timeout
\* is due (IdleTimeoutMs less the time since getSession or the last method
\* call through the handle); ended records that the holder called done() or
\* that the timer ran its callback; query is "none" for a getSession of the
\* pool's user and the state of the query for a checkout made by
\* Neo4jManager.runQuery
CheckoutUnstarted(id) ==
  [id |-> id, pending |-> FALSE, left |-> 0, ended |-> FALSE, query |-> "none"]

Checkout(id) ==
  [id |-> id, pending |-> TRUE, left |-> IdleTimeoutMs, ended |-> FALSE,
   query |-> "none"]

\* a checkout has ended: its done() was called or its idle timeout fired
Ended(c) == checkouts[c].ended

NoPoolCall ==
  [op |-> "none", checkout |-> 0, returned |-> FALSE, threw |-> FALSE,
   endedBefore |-> FALSE, idleBefore |-> {}, activeBefore |-> {}]
PoolCallOf(op, c, returned, threw) ==
  [op |-> op, checkout |-> c, returned |-> returned, threw |-> threw,
   endedBefore |-> (c \in DOMAIN checkouts /\ Ended(c)),
   idleBefore |-> idleSessionMap, activeBefore |-> activeSessionMap]

\* what shutdown() did: the sessions whose close() it called, how often it
\* called close() of the driver, its stopDriver argument and whether it threw
NotShutDown ==
  [called |-> FALSE, stopDriver |-> FALSE, threw |-> FALSE, closed |-> {},
   driverCloses |-> 0]

PoolInit ==
  /\ idleSessionMap = SessionIds
  /\ activeSessionMap = {}
  /\ checkouts = <<>>
  /\ poolLast = NoPoolCall
  /\ shut = NotShutDown

\* OneshotTimer.stop(), and a timeout that has run: nothing is pending
stop(checkout) == [checkout EXCEPT !.pending = FALSE, !.left = 0]

\* the body of the done closure of getSession, for the id it holds
\* doneKeepsActive puts the session into the idle map and leaves it in the
\* active map
doneKeepsActive(id, idle, active) ==
  IF id \in idle THEN [returned |-> FALSE, idle |-> idle, active |-> active]
  ELSE [returned |-> TRUE, idle |-> idle \cup {id}, active |-> active]

done(id, idle, active) ==
  IF id \in idle THEN [returned |-> FALSE, idle |-> idle, active |-> active]
  ELSE [returned |-> TRUE, idle |-> idle \cup {id}, active |-> active \ {id}]

\* blockStatus of the session proxy
blockStatus(id, active) == id \notin active

\* getSession(): a random idle session becomes active and gets a done
\* closure, a started timer and a proxy
\* GetSessionKeepsIdle hands a session out and leaves it in the idle map
GetSessionKeepsIdle ==
  /\ Len(checkouts) < MaxCheckouts
  /\ idleSessionMap # {}
  /\ \E id \in idleSessionMap :
       /\ idleSessionMap' = idleSessionMap
       /\ activeSessionMap' = activeSessionMap \cup {id}
       /\ checkouts' = Append(checkouts, Checkout(id))
       /\ poolLast' = PoolCallOf("getSession", Len(checkouts) + 1, FALSE, FALSE)
  /\ UNCHANGED <<pathVars, whereVars, queryVars, clauseVars, setVars, shut>>

GetSession ==
  /\ Len(checkouts) < MaxCheckouts
  /\ idleSessionMap # {}
  /\ \E id \in idleSessionMap :
       /\ idleSessionMap' = idleSessionMap \ {id}
       /\ activeSessionMap' = activeSessionMap \cup {id}
       /\ checkouts' = Append(checkouts, Checkout(id))
       /\ poolLast' = PoolCallOf("getSession", Len(checkouts) + 1, FALSE, FALSE)
  /\ UNCHANGED <<pathVars, whereVars, queryVars, clauseVars, setVars, shut>>

\* getSession() with no idle session throws NoSessionException
GetSessionThrows ==
  /\ idleSessionMap = {}
  /\ poolLast' = PoolCallOf("getSession", 0, FALSE, TRUE)
  /\ UNCHANGED <<idleSessionMap, activeSessionMap, checkouts, pathVars, whereVars,
                 queryVars, clauseVars, setVars, shut>>

\* the holder calls done() of a checkout; done stops the timer when it moves
\* the session
Done == \E c \in DOMAIN checkouts :
  /\ checkouts[c].query = "none"
  /\ \E res \in {done(checkouts[c].id, idleSessionMap, activeSessionMap)} :
       /\ idleSessionMap' = res.idle
       /\ activeSessionMap' = res.active
       /\ checkouts' = [checkouts EXCEPT
                          ![c] = IF res.returned THEN stop(@) ELSE @,
                          ![c].ended = TRUE]
       /\ poolLast' = PoolCallOf("done", c, res.returned, FALSE)
  /\ UNCHANGED <<pathVars, whereVars, queryVars, clauseVars, setVars, shut>>

\* OneshotTimer.extend(): the pending timeout is cleared and a new one set
extend(checkout) ==
  [checkout EXCEPT !.pending = TRUE, !.left = IdleTimeoutMs]

\* the clock advances by one tick; a timeout that is due runs at some later
\* moment of its own (setTimeout never runs a callback early)
Tick ==
  /\ checkouts' = [c \in DOMAIN checkouts |->
                     [checkouts[c] EXCEPT
                        !.left = IF checkouts[c].pending /\ @ > 0 THEN @ - 1 ELSE @]]
  /\ poolLast' = PoolCallOf("tick", 0, FALSE, FALSE)
  /\ UNCHANGED <<idleSessionMap, activeSessionMap, pathVars, whereVars, queryVars,
                 clauseVars, setVars, shut>>

\* the pending timeout of a checkout's timer is due and runs its callback,
\* () => done()
IdleTimeoutOf(c) ==
  /\ c \in DOMAIN checkouts
  /\ checkouts[c].pending
  /\ checkouts[c].left = 0
  /\ \E res \in {done(checkouts[c].id, idleSessionMap, activeSessionMap)} :
       /\ idleSessionMap' = res.idle
       /\ activeSessionMap' = res.active
       /\ checkouts' = [checkouts EXCEPT ![c] = stop(@), ![c].ended = TRUE]
       /\ poolLast' = PoolCallOf("timeout", c, res.returned, FALSE)
  /\ UNCHANGED <<pathVars, whereVars, queryVars, clauseVars, setVars, shut>>

IdleTimeout == \E c \in 1..MaxCheckouts : IdleTimeoutOf(c)

\* a method of the session is called through the proxy of a checkout: the
\* callback extends the timer, then blockStatus decides between the throw and
\* the call of the session's method
HandleCall == \E c \in DOMAIN checkouts :
  /\ checkouts[c].query = "none"
  /\ checkouts' = [checkouts EXCEPT ![c] = extend(@)]
  /\ poolLast' = PoolCallOf("call", c, FALSE,
                            blockStatus(checkouts[c].id, activeSessionMap))
  /\ UNCHANGED <<idleSessionMap, activeSessionMap, pathVars, whereVars, queryVars,
                 clauseVars, setVars, shut>>

\* shutdown(stopDriver), called once: close() is called on the sessions of
\* the idle map; when a close() rejects shutdown throws, otherwise it closes
\* the driver if stopDriver is set
Shutdown ==
  /\ ~shut.called
  /\ \E stopDriver \in BOOLEAN, rejected \in BOOLEAN :
       /\ rejected => idleSessionMap # {}
       /\ shut' = [called |-> TRUE, stopDriver |-> stopDriver,
                   threw |-> rejected, closed |-> idleSessionMap,
                   driverCloses |-> IF stopDriver /\ ~rejected THEN 1 ELSE 0]
       /\ poolLast' = PoolCallOf("shutdown", 0, FALSE, rejected)
  /\ UNCHANGED <<idleSessionMap, activeSessionMap, checkouts, pathVars,
                 whereVars, queryVars, clauseVars, setVars>>

PoolNext ==
  GetSession \/ GetSessionThrows \/ Done \/ IdleTimeout \/ HandleCall \/ Tick

\* the pool with its shutdown
ShutdownNext == PoolNext \/ Shutdown

\* what runQuery is called with: a query string, a builder callback whose
\* query assembles, a callback that throws, or one whose assembly
\* (toParameterizedQuery) throws
QueryArgs == {"string", "builder", "callbackThrows", "assemblyThrows"}

\* Neo4jManager.runQuery up to its await: getSession, then the query is taken
\* from the arguments or built, and session.run is called through the proxy
\* (which restarts the timer); a throw of the callback or of the assembly
\* goes through finally { done() } at once
RunQuery ==
  /\ Len(checkouts) < MaxCheckouts
  /\ idleSessionMap # {}
  /\ \E id \in idleSessionMap, arg \in QueryArgs :
       IF arg \in {"callbackThrows", "assemblyThrows"}
       THEN \E res \in {done(id, idleSessionMap \ {id},
                             activeSessionMap \cup {id})} :
              /\ idleSessionMap' = res.idle
              /\ activeSessionMap' = res.active
              /\ checkouts' = Append(checkouts,
                     [stop(Checkout(id)) EXCEPT !.ended = TRUE,
                                                !.query = "threw"])
              /\ poolLast' = PoolCallOf("runQuery", Len(checkouts) + 1,
                                        res.returned, TRUE)
       ELSE /\ idleSessionMap' = idleSessionMap \ {id}
            /\ activeSessionMap' = activeSessionMap \cup {id}
            /\ checkouts' = Append(checkouts,
                   [extend(Checkout(id)) EXCEPT !.query = "running"])
            /\ poolLast' = PoolCallOf("runQuery", Len(checkouts) + 1,
                                      FALSE, FALSE)
  /\ UNCHANGED <<pathVars, whereVars, queryVars, clauseVars, setVars, shut>>

\* runQuery with no idle session: getSession throws before the try
RunQueryNoSession ==
  /\ idleSessionMap = {}
  /\ poolLast' = PoolCallOf("runQuery", 0, FALSE, TRUE)
  /\ UNCHANGED <<idleSessionMap, activeSessionMap, checkouts, pathVars,
                 whereVars, queryVars, clauseVars, setVars, shut>>

\* the promise of session.run settles: the result is returned or the error
\* rethrown, through finally { done() }
\* RunQuerySettleNoFinally calls done() only when the query resolved
RunQuerySettleNoFinally == \E c \in DOMAIN checkouts, resolved \in BOOLEAN :
  /\ checkouts[c].query = "running"
  /\ \E res \in {IF resolved
                  THEN done(checkouts[c].id, idleSessionMap, activeSessionMap)
                  ELSE [returned |-> FALSE, idle |-> idleSessionMap,
                        active |-> activeSessionMap]} :
       /\ idleSessionMap' = res.idle
       /\ activeSessionMap' = res.active
       /\ checkouts' = [checkouts EXCEPT
                          ![c] = IF res.returned THEN stop(@) ELSE @,
                          ![c].ended = TRUE,
                          ![c].query = IF resolved THEN "resolved" ELSE "rejected"]
       /\ poolLast' = PoolCallOf("settle", c, res.returned, ~resolved)
  /\ UNCHANGED <<pathVars, whereVars, queryVars, clauseVars, setVars, shut>>

RunQuerySettle == \E c \in DOMAIN checkouts, resolved \in BOOLEAN :
  /\ checkouts[c].query = "running"
  /\ \E res \in {done(checkouts[c].id, idleSessionMap, activeSessionMap)} :
       /\ idleSessionMap' = res.idle
       /\ activeSessionMap' = res.active
       /\ checkouts' = [checkouts EXCEPT
                          ![c] = IF res.returned THEN stop(@) ELSE @,
                          ![c].ended = TRUE,
                          ![c].query = IF resolved THEN "resolved" ELSE "rejected"]
       /\ poolLast' = PoolCallOf("settle", c, res.returned, ~resolved)
  /\ UNCHANGED <<pathVars, whereVars, queryVars, clauseVars, setVars, shut>>

\* Neo4jManager over its pool: runQuery calls next to the holders of
\* Neo4jManager.getSession
ManagerNext == PoolNext \/ RunQuery \/ RunQueryNoSession \/ RunQuerySettle

-----------------------------------------------------------------------------
(* Claims about SessionPoolManager *)

\* C29 (as stated): once a checkout has ended (its done() was called or its
\* idle timeout fired), every method call through that checkout's session
\* handle throws and does not reach the session, also after the session was
\* handed out again.
C29_EndedHandleAlwaysThrows ==
  (poolLast.op = "call" /\ poolLast.endedBefore) => poolLast.threw

\* C30 (as stated): the first done() of a checkout (not ended by its timer)
\* moves its session from the active map to the idle map and returns true; a
\* done() of a checkout whose session was already returned, by an earlier
\* done() or by the idle timeout, returns false and changes neither map.
C30_FirstDoneReturnsSession ==
  poolLast.op = "done" =>
    LET id == checkouts[poolLast.checkout].id
    IN /\ ~poolLast.endedBefore =>
            /\ poolLast.returned
            /\ id \in poolLast.activeBefore /\ id \notin activeSessionMap
            /\ id \notin poolLast.idleBefore /\ id \in idleSessionMap
       /\ poolLast.endedBefore =>
            /\ ~poolLast.returned
            /\ idleSessionMap = poolLast.idleBefore
            /\ activeSessionMap = poolLast.activeBefore

Owner(id) ==
  CHOOSE c \in DOMAIN checkouts :
    /\ checkouts[c].id = id
    /\ \A d \in DOMAIN checkouts : checkouts[d].id = id => d <= c

\* a checkout that has not ended, and the session of a checkout being idle
Live(c) == c \in DOMAIN checkouts /\ ~Ended(c)
SessionIdle(c) == c \in DOMAIN checkouts /\ checkouts[c].id \in idleSessionMap
CalledThrough(c) == poolLast.op = "call" /\ poolLast.checkout = c

\* C32: with idleTimeoutMs configured, a checked-out session on which no
\* method is called for idleTimeoutMs is eventually back in the idle map
\* without the holder calling done(): unless methods keep being called
\* through its handle for ever, the session of every live checkout becomes
\* idle.
C32_IdleCheckoutIsReturned ==
  \A c \in 1..MaxCheckouts :
    ([]<>CalledThrough(c)) \/ (Live(c) ~> SessionIdle(c))

\* C32 witness: the idle timeout of a checkout whose done() was never called
\* returned its session.
C32_Witness ==
  /\ poolLast.op = "timeout" /\ poolLast.returned
  /\ ~poolLast.endedBefore
  /\ poolLast.checkout = Owner(checkouts[poolLast.checkout].id)
  /\ checkouts[poolLast.checkout].id \in idleSessionMap

\* C33 (as stated): each method call through the handle of an active checkout
\* restarts the idle timer, so that a session is returned by a timeout only
\* when idleTimeoutMs has passed since the last call through the handle of
\* the checkout that holds it (or since its getSession): no time is left on
\* the timer of that checkout.
C33_ReturnedOnlyAfterQuietTime ==
  (poolLast.op = "timeout" /\ poolLast.returned) =>
    checkouts[Owner(checkouts[poolLast.checkout].id)].left = 0

\* C34 (as stated): shutdown() calls close() on every session the pool
\* created, on those checked out as well as on the idle ones, and when
\* stopDriver is set and no close() rejected it has closed the driver exactly
\* once.
C34_ShutdownClosesEverySession ==
  shut.called =>
    /\ shut.closed = SessionIds
    /\ (shut.stopDriver /\ ~shut.threw) => shut.driverCloses = 1

\* C38: after any interleaving of getSession, done(), calls through handles
\* and idle-timer firings, the idle map and the active map are disjoint and
\* together hold exactly the numberOfSessions sessions the pool created.
C38_MapsPartitionTheSessions ==
  /\ idleSessionMap \cap activeSessionMap = {}
  /\ idleSessionMap \cup activeSessionMap = SessionIds
  /\ Cardinality(idleSessionMap) + Cardinality(activeSessionMap)
       = NumberOfSessions

\* C38 witness: an idle timeout has just returned one session while another
\* one is still checked out.
C38_Witness ==
  /\ poolLast.op = "timeout" /\ poolLast.returned
  /\ activeSessionMap # {} /\ idleSessionMap # {}

\* C39 (as stated): a checkout ends only through its own done() or its own
\* idle timer: a done() call, a method call through the handle or a timer
\* left over from an earlier checkout of a session never takes that session
\* out of the active map while a later checkout of it is active.
C39_StaleClosuresLeaveLaterCheckout ==
  (/\ poolLast.op \in {"done", "timeout", "call"}
   /\ poolLast.checkout < Owner(checkouts[poolLast.checkout].id)
   /\ checkouts[poolLast.checkout].id \in poolLast.activeBefore)
    => /\ checkouts[poolLast.checkout].id \in activeSessionMap
       /\ ~poolLast.returned

\* C40: every Neo4jManager.runQuery call that obtained a session has returned
\* it to the pool by the time its promise settles, whether the query
\* resolved, session.run rejected, or the builder callback or the assembly
\* threw: at that moment the session is in the idle map and not in the active
\* map.
C40_RunQueryReturnsItsSession ==
  (/\ poolLast.op \in {"runQuery", "settle"}
   /\ poolLast.checkout # 0
   /\ checkouts[poolLast.checkout].query \in {"resolved", "rejected", "threw"})
    => /\ checkouts[poolLast.checkout].id \in idleSessionMap
       /\ checkouts[poolLast.checkout].id \notin activeSessionMap

\* C40 witness: session.run rejected and the done() of finally moved the
\* session back to the idle map.
C40_Witness ==
  /\ poolLast.op = "settle" /\ poolLast.threw /\ poolLast.returned
  /\ checkouts[poolLast.checkout].query = "rejected"
  /\ checkouts[poolLast.checkout].id \in idleSessionMap

-----------------------------------------------------------------------------
(* Further claims about the builders *)

\* the relationship written at tokens i+1..i+3 of a pattern text has an
\* arrowhead on both of its sides
BothArrowheadsAt(text, i) ==
  /\ text[i] = "<-" /\ text[i + 1] = "[" /\ text[i + 3] = "]"
  /\ text[i + 4] = "->"

\* C35 (as stated): in the text of every pattern built with the structured
\* calls each relationship carries an arrowhead on at most one side: no
\* sequence of accepted calls yields a relationship written as <-[r]->.
C35_ArrowheadOnOneSideOnly ==
  pbResult.status = "ok" =>
    \A i \in 1..Len(pbResult.query) :
      i + 4 <= Len(pbResult.query) => ~BothArrowheadsAt(pbResult.query, i)

\* C36 (as stated): every SKIP, LIMIT or OFFSET value that appears in an
\* assembled query is a non-negative integer: skip, limit and offset never
\* let a negative value reach the query text.
C36_SkipLimitOffsetNonNegative ==
  qbResult.status = "ok" =>
    \A i \in 1..Len(qbResult.query) :
      qbResult.query[i].clause \in {"SKIP", "LIMIT", "OFFSET"}
        => qbResult.query[i].value >= 0

\* C37 (as stated): finalizing a WHERE tree succeeds whenever every alias
\* referenced by each of its statements is in the injected scope, whether a
\* statement references one alias, several aliases or none.
C37_WhereFinalizeAcceptsScopedAliases ==
  (/\ wbResult.status # "none"
   /\ \A i \in 1..Len(StatementNodes(wb.nodes)) :
        ReferencedAliases(StatementNodes(wb.nodes)[i].statement)
          \subseteq wbScope)
    => wbResult.status = "ok"

-----------------------------------------------------------------------------

Init == PathInit /\ WhereInit /\ QueryInit /\ ClauseInit /\ SetInit /\ PoolInit

SpecPath == Init /\ [][PathNext]_vars

SpecWhere == Init /\ [][WhereNext]_vars

SpecQuery == Init /\ [][QueryNext]_vars

SpecClause == Init /\ [][ClauseNext]_vars

SpecSet == Init /\ [][SetNext]_vars

SpecPool == Init /\ [][PoolNext]_vars

SpecShutdown == Init /\ [][ShutdownNext]_vars

SpecManager == Init /\ [][ManagerNext]_vars

\* the clock keeps advancing and a timeout that stays due runs
SpecPoolFair ==
  /\ Init /\ [][PoolNext]_vars
  /\ WF_vars(Tick)
  /\ \A c \in 1..MaxCheckouts : WF_vars(IdleTimeoutOf(c))

====
